---- MODULE Spec2Model ----
(***************************************************************************)
(* Ledger state engine of mini-coin-go: the blocks bucket with its tip key *)
(* "l", the chainstate (UTXO) bucket, and the operations of                *)
(* blockchain/blockchain.go that read and write them.                      *)
(*                                                                         *)
(* Byte strings that carry a transaction ID are records [enc, h]: h is the *)
(* hashed content and enc tells whether the bytes are the 32-byte digest   *)
(* ("raw") or the 64 characters of its hexadecimal text ("hex").           *)
(***************************************************************************)
EXTENDS Integers, Sequences, FiniteSets, Bags, TLC

\* ------------------------------------------------------------ bounds ----
\* number of transactions committed on top of the genesis coinbase
MaxTxs == 3

\* wallet addresses and the amounts a send may ask for
Addrs == {"A", "B"}
Amounts == {40, 100}
NoMiner == ""

\* block reward of NewCoinbaseTX
subsidy == 100

\* ------------------------------------------------------- byte strings ---
Raw(h) == [enc |-> "raw", h |-> h]
EmptyBytes == Raw(<<>>)

\* hex.EncodeToString: 32 digest bytes -> 64 hexadecimal characters
HexEncodeToString(b) == [enc |-> "hex", h |-> b.h]

\* hex.DecodeString fails on a string that is not hexadecimal text
HexDecodeOK(s) == s.enc = "hex"
HexDecodeString(s) == [enc |-> "raw", h |-> s.h]

\* Base58Decode(address)[1 : len-4]
PubKeyHash(address) == [pkh |-> address]

\* ------------------------------------------------------- transactions ---
TXInput(txid, vout, sig) == [Txid |-> txid, Vout |-> vout, ScriptSig |-> sig]
TXOutput(value, pkh) == [Value |-> value, ScriptPubKey |-> pkh]

IsLockedWithKey(out, pubKeyHash) == out.ScriptPubKey = pubKeyHash

\* Transaction.Hash: SHA-256 of the encoded transaction with the ID cleared;
\* the digest is a function of the inputs and outputs only
Hash(vin, vout) == Raw(<<vin, vout>>)

Transaction(vin, vout) == [ID |-> Hash(vin, vout), Vin |-> vin, Vout |-> vout]

IsCoinbase(tx) ==
    /\ Len(tx.Vin) = 1
    /\ tx.Vin[1].Txid.h = <<>>
    /\ tx.Vin[1].Vout = -1

\* a coinbase whose output is locked to the bytes of the address text
\* instead of the public-key hash decoded from it
NewCoinbaseTXAddressBytes(to) ==
    Transaction(<<TXInput(EmptyBytes, -1, <<"Reward to", to>>)>>,
                <<TXOutput(subsidy, [address |-> to])>>)
\* NewCoinbaseTX(to, ""): no input, one output of the reward locked to the
\* public-key hash of the address
NewCoinbaseTX(to) ==
    Transaction(<<TXInput(EmptyBytes, -1, <<"Reward to", to>>)>>,
                <<TXOutput(subsidy, PubKeyHash(to))>>)

\* ------------------------------------------------------------- buckets --
EmptyBucket == [k \in {} |-> <<>>]
Put(b, k, v) == [x \in (DOMAIN b) \cup {k} |-> IF x = k THEN v ELSE b[x]]
Delete(b, k) == [x \in (DOMAIN b) \ {k} |-> b[x]]

\* -------------------------------------------------------- Merkle tree --
\* the longest sequence of leaves handed to NewMerkleTree, and the leaves
MaxLeaves == 6
Leaves == {"t1", "t2"}

Nil == <<>>

\* NewMerkleNode: a leaf holds SHA-256(data), an inner node
\* SHA-256(left.Data || right.Data)
NewMerkleNode(left, right, data) ==
    [Left |-> left, Right |-> right,
     Data |-> IF left = Nil /\ right = Nil
                THEN Raw(<<data>>)
                ELSE Raw(<<left.Data, right.Data>>)]

\* "for i := 0; i < len(nodes); i += 2": nodes[i] with nodes[i+1]; the index
\* i+1 is out of range when one node is left over
RECURSIVE NewLevel(_)
NewLevel(nodes) ==
    IF nodes = <<>> THEN [err |-> "", nodes |-> <<>>]
    ELSE IF Len(nodes) = 1 THEN [err |-> "IndexOutOfRange", nodes |-> <<>>]
    ELSE LET rest == NewLevel(Tail(Tail(nodes)))
         IN IF rest.err # "" THEN rest
            ELSE [err |-> "",
                  nodes |-> <<NewMerkleNode(nodes[1], nodes[2], Nil)>> \o rest.nodes]

\* "for len(nodes) > 1", then MerkleTree{&nodes[0]}
RECURSIVE BuildLevels(_)
BuildLevels(nodes) ==
    IF Len(nodes) > 1
        THEN LET newLevel == NewLevel(nodes)
             IN IF newLevel.err # ""
                  THEN [err |-> newLevel.err, RootNode |-> Nil]
                  ELSE BuildLevels(newLevel.nodes)
    ELSE IF nodes = <<>> THEN [err |-> "IndexOutOfRange", RootNode |-> Nil]
    ELSE [err |-> "", RootNode |-> nodes[1]]

\* the data with its last element repeated when its length is odd
EvenData(data) ==
    IF Len(data) % 2 # 0 THEN Append(data, data[Len(data)]) ELSE data

NewMerkleTree(data) ==
    BuildLevels([i \in 1..Len(EvenData(data)) |-> NewMerkleNode(Nil, Nil, EvenData(data)[i])])

\* Block.HashTransactions: the root of the tree over the transaction IDs
HashTransactions(transactions) ==
    NewMerkleTree([i \in 1..Len(transactions) |-> transactions[i].ID])

\* no call of NewMerkleTree under way
NoTree == [pc |-> "idle", data |-> <<>>, err |-> "", RootNode |-> Nil]

\* ------------------------------------------------------ message queue --
\* the capacity the queue is made with, and the most messages that are in
\* the queue, in processing and failed taken together
maxSize == 3
MaxMessages == 4

PriorityLow == 0
PriorityNormal == 1
PriorityHigh == 2

\* the messages callers hand to Enqueue: one of normal priority created
\* first, two of high priority created after it one after the other; each
\* with no retry yet, the first with MaxRetries left at 0 as a struct
\* literal leaves it, the other two with a second try allowed. Handed is no
\* field of the struct: it counts how often Dequeue has handed the message
\* out since it was enqueued or taken back from the failed ones.
MessageIDs == {"m1", "m2", "m3"}
Message(id, priority, createdAt, maxRetries) ==
    [ID |-> id, Type |-> "tx", Priority |-> priority, CreatedAt |-> createdAt,
     Retries |-> 0, MaxRetries |-> maxRetries, Handed |-> 0]
Messages ==
    { Message("m1", PriorityNormal, 1, 0),
      Message("m2", PriorityHigh, 2, 2),
      Message("m3", PriorityHigh, 3, 2) }
NilMessage == [ID |-> "", Type |-> "", Priority |-> PriorityLow, CreatedAt |-> 0,
               Retries |-> 0, MaxRetries |-> 0, Handed |-> 0]

\* Message.CanRetry, expired being the answer of IsExpired at that moment
\* (CanRetryOnceMore: the same with <= for <)
CanRetryOnceMore(m, expired) == m.Retries <= m.MaxRetries /\ ~expired
CanRetry(m, expired) == m.Retries < m.MaxRetries /\ ~expired

\* PriorityQueue.Less and Swap, on positions counted from 1
LessOldestLast(pq, i, j) ==
    IF pq[i].Priority # pq[j].Priority
        THEN pq[i].Priority > pq[j].Priority
        ELSE pq[j].CreatedAt < pq[i].CreatedAt
Less(pq, i, j) ==
    IF pq[i].Priority # pq[j].Priority
        THEN pq[i].Priority > pq[j].Priority
        ELSE pq[i].CreatedAt < pq[j].CreatedAt
Swap(pq, i, j) == [pq EXCEPT ![i] = pq[j], ![j] = pq[i]]

\* container/heap: up(j) and down(i0, n), on indices counted from 0
RECURSIVE up(_, _)
up(pq, j) ==
    IF j = 0 THEN pq
    ELSE LET i == (j - 1) \div 2
         IN IF ~Less(pq, j + 1, i + 1) THEN pq
            ELSE up(Swap(pq, i + 1, j + 1), i)

RECURSIVE down(_, _, _)
down(pq, i, n) ==
    LET j1 == 2 * i + 1 IN
    IF j1 >= n THEN pq
    ELSE LET j == IF j1 + 1 < n /\ Less(pq, j1 + 2, j1 + 1) THEN j1 + 1 ELSE j1
         IN IF ~Less(pq, j + 1, i + 1) THEN pq
            ELSE down(Swap(pq, i + 1, j + 1), j, n)

\* heap.Push: append, then up(len - 1)
HeapPush(pq, x) == up(Append(pq, x), Len(pq))

\* heap.Pop: swap the first with the last, down(0, n), take the last off
HeapPop(pq) ==
    LET n == Len(pq) - 1
        sifted == down(Swap(pq, 1, n + 1), 0, n)
    IN [message |-> sifted[n + 1], messages |-> SubSeq(sifted, 1, n)]

\* what a call of the queue returned
Returned(op, err, message) == [op |-> op, err |-> err, message |-> message]
\* what MarkFailed came to, with the answer IsExpired gave it
Failed(message, expired) ==
    [op |-> "MarkFailed", err |-> "", message |-> message, expired |-> expired]

\* QueueStats: the three counters that mirror the three maps (the totals
\* and the average time only grow and nothing reads them)
NewQueueStats == [PendingMessages |-> 0, ProcessingMessages |-> 0, FailedMessages |-> 0]

NewQueue(size) ==
    [messages |-> <<>>, pending |-> EmptyBucket, processing |-> EmptyBucket,
     failed |-> EmptyBucket, maxSize |-> IF size <= 0 THEN 1000 ELSE size,
     stats |-> NewQueueStats,
     last |-> Returned("NewQueue", "", NilMessage)]

\* ------------------------------------------- the two locks of a Queue --
\* the goroutines that call the Queue, and the calls they make: the first
\* asks for the statistics, the others change the queue
Goroutines == {"g1", "g2", "g3"}
QueueCalls == {"Enqueue", "Dequeue", "MarkProcessed", "MarkFailed"}

\* sync.RWMutex: the goroutine that holds it for writing and those that
\* hold it for reading
NewRWMutex == [writer |-> "", readers |-> {}]

\* no goroutine is in a call; pc is where a goroutine stands, call the
\* method it is in
NoCalls ==
    [mutex |-> NewRWMutex, statsMutex |-> NewRWMutex,
     pc |-> [g \in Goroutines |-> "idle"],
     call |-> [g \in Goroutines |-> ""]]

\* ----------------------------------------------------- connection pool --
\* config.MaxConnections as TestConnectionPool sets it, the goroutines that
\* ask the pool for connections, and the most connections that are dialled
MaxConnections == 2
MaxDials == 3
Callers == {"c1", "c2"}
NoConnection == 0

\* min
min(a, b) == IF a < b THEN a ELSE b

\* NewConnection: the two flags of a Connection
NewConnection == [IsActive |-> TRUE, IsBusy |-> FALSE]

\* what a call of the pool came to
PoolReturned(op, err) == [op |-> op, err |-> err]

\* NewPool. made holds the Connection objects by ID, connections the IDs
\* that are keys of p.connections; stopCh is the channel, open or closed; healthTasks counts the
\* goroutines in healthCheckTask, creating and dialling those in
\* preCreateConnections before and in their dial; pc, count and held are
\* where a caller stands in GetConnection, the number of connections it
\* has read and the connection it was given; dialled counts the
\* connections made so far.
NewPool ==
    [made |-> [id \in {} |-> NewConnection],
     connections |-> {},
     available |-> <<>>,
     isRunning |-> FALSE,
     stopCh |-> "open",
     healthTicker |-> "nil",
     healthTasks |-> 0,
     creating |-> 0,
     dialling |-> 0,
     pc |-> [c \in Callers |-> "idle"],
     held |-> [c \in Callers |-> NoConnection],
     dialled |-> 0,
     last |-> PoolReturned("NewPool", "")]

\* -------------------------------------------------------- DDoS filter --
\* the limit the filter is made with, the most requests one IP makes, the
\* IPs, and the addresses requests come from (with or without a port)
maxConnections == 2
MaxRequests == 5
IPs == {"ip1", "ip2"}
Addresses ==
    { [host |-> "ip1", port |-> ""], [host |-> "ip1", port |-> "3000"],
      [host |-> "ip2", port |-> "3000"] }

\* extractIP: the host of host:port, the address itself when it has no port
extractIP(addr) == addr.host

\* the time that has passed since a moment the filter has noted: none yet,
\* more than the 5 minutes a counter lives, more than the 10 minutes of a
\* ban, more than the hour a suspicion lives
JustNow == 0
CounterExpired == 1
BanExpired == 2
SuspicionExpired == 3

\* df.connectionCount[ip] > df.maxConnections (OverLimitAtLimit: with >=)
OverLimitAtLimit(count, limit) == count >= limit
OverLimit(count, limit) == count > limit

\* what ShouldAllow answered for which IP
Allowed(op, ip, allowed) == [op |-> op, ip |-> ip, allowed |-> allowed]

\* NewDDoSFilter with a NewBlacklistFilter; blacklist is the map of the
\* latter
NewDDoSFilter ==
    [connectionCount |-> [ip \in {} |-> 0],
     lastRequest |-> [ip \in {} |-> JustNow],
     suspiciousIPs |-> [ip \in {} |-> JustNow],
     blacklist |-> [ip \in {} |-> JustNow],
     last |-> Allowed("NewDDoSFilter", "", TRUE)]

\* ------------------------------------------------------- peer manager --
\* max_peers of the configuration, the addresses peers are known by, the
\* highest score a peer gets to and the most failures that take a score
\* below that of a new peer
maxPeers == 2
PeerAddresses == {"a:3000", "b:3000", "c:3000"}
MaxScore == 60
MaxFailures == 2

StatusDisconnected == 0
StatusConnecting == 1
StatusConnected == 2
StatusFailed == 3
\* the statuses callers of UpdateStatus pass
PeerStatuses == {StatusDisconnected, StatusConnected, StatusFailed}

\* NewPeer: LastSeen is kept as the time that has passed since, none or
\* more than the 10 minutes performCleanup allows
NewPeer == [Status |-> StatusDisconnected, Score |-> 50, LastSeen |-> JustNow]
NotAlive == 1

\* what was called last on the manager
Called(op, address) == [op |-> op, address |-> address]

\* NewManager with a configuration that names no seed node
NewManager ==
    [peers |-> [address \in {} |-> NewPeer], last |-> Called("NewManager", "")]

\* ----------------------------------------------------- message handler --
\* the worker goroutines NewHandler is asked for, the message types, the
\* messages callers submit and the number of accepted messages the runs
\* go up to
Workers == 2
MessageTypes == {"tx", "block"}
MaxSubmits == 2
Submitted ==
    { Message("m1", PriorityNormal, 1, 0),
      [Message("m2", PriorityHigh, 2, 1) EXCEPT !.Type = "block"] }
SubmittedIDs == {"m1", "m2"}

\* a goroutine running worker: at its select, in processMessages with the
\* types of its copy of h.queues still to visit, or in handleMessage with
\* the message it waits for
AtSelect == [at |-> "select", queues |-> {}, message |-> NilMessage]
InProcessMessages(queues) ==
    [at |-> "processMessages", queues |-> queues, message |-> NilMessage]
InHandleMessage(queues, message) ==
    [at |-> "handleMessage", queues |-> queues, message |-> message]

\* what the call made last on the handler returned
Answered(op, err, id) == [op |-> op, err |-> err, id |-> id]

\* NewHandler(Workers). workers is the bag of the goroutines running
\* worker, cleanupTasks the number of those running cleanupTask.
\* submitted, passed and failures are no fields of the struct: per message
\* ID they count the Submit calls that returned nil, the calls of a
\* handler function, and those of them that returned an error or ran out
\* of time; processed counts per ID what updateProcessedStats adds to
\* TotalProcessed
NewHandlerStats == [TotalProcessed |-> 0, TotalFailed |-> 0]
NewHandler ==
    [queues |-> [t \in {} |-> NewQueue(1000)],
     handlers |-> {},
     isRunning |-> FALSE,
     stopCh |-> "open",
     stats |-> NewHandlerStats,
     workers |-> EmptyBag,
     cleanupTasks |-> 0,
     submitted |-> [id \in SubmittedIDs |-> 0],
     passed |-> [id \in SubmittedIDs |-> 0],
     processed |-> [id \in SubmittedIDs |-> 0],
     failures |-> [id \in SubmittedIDs |-> 0],
     last |-> Answered("NewHandler", "", "")]

\* ------------------------------------------------------ block download --
\* the addresses of this node and of the central node it learns blocks from
nodeAddress == "localhost:3001"
centralNode == "localhost:3000"

\* the messages of the download: version, getblocks, inv, getdata, block
Version(to, addrFrom, bestHeight) ==
    [command |-> "version", to |-> to, AddrFrom |-> addrFrom, BestHeight |-> bestHeight,
     Items |-> <<>>, ID |-> <<>>, Block |-> <<>>]
GetBlocks(to, addrFrom) ==
    [command |-> "getblocks", to |-> to, AddrFrom |-> addrFrom, BestHeight |-> 0,
     Items |-> <<>>, ID |-> <<>>, Block |-> <<>>]
Inv(to, addrFrom, items) ==
    [command |-> "inv", to |-> to, AddrFrom |-> addrFrom, BestHeight |-> 0,
     Items |-> items, ID |-> <<>>, Block |-> <<>>]
GetData(to, addrFrom, id) ==
    [command |-> "getdata", to |-> to, AddrFrom |-> addrFrom, BestHeight |-> 0,
     Items |-> <<>>, ID |-> id, Block |-> <<>>]
BlockData(to, addrFrom, block) ==
    [command |-> "block", to |-> to, AddrFrom |-> addrFrom, BestHeight |-> 0,
     Items |-> <<>>, ID |-> <<>>, Block |-> <<block>>]

\* the goroutines StartServer starts, one for an accepted connection, and
\* the commands handleConnection knows
Connections == {"conn1", "conn2"}
Commands == {"version", "addr", "block", "inv", "getdata", "tx"}

\* an access of a handler to one of the three variables of the package
Access(variable, mode) == [variable |-> variable, mode |-> mode]
NoAccess == Access("", "")

\* a goroutine that handles no connection
Idle == [command |-> "", accesses |-> <<>>, inside |-> FALSE]

\* the node as StartServer finds it: nothing in transit, no message under
\* way, the chain of the central node not yet told from its own.
\* conn tells what the goroutine of each connection still has to do.
\* announced, requested and delivered are no variables of the package: they
\* keep the items of the inv that was handled, the hashes getdata was sent
\* for and the hashes of the blocks handleBlock was called with
NewServer ==
    [blocksInTransit |-> <<>>,
     wire |-> {},
     peer |-> [blocks |-> EmptyBucket, l |-> <<>>],
     KnownNodes |-> <<"localhost:3000">>,
     conn |-> [c \in Connections |-> Idle],
     versions |-> 0,
     announced |-> <<>>,
     requested |-> <<>>,
     delivered |-> <<>>,
     panicked |-> FALSE]

\* --------------------------------------------------------------- state --
VARIABLES
    blocks,      \* blocks bucket: block hash -> block
    l,           \* the key "l" of the blocks bucket (<<>> before creation)
    tip,         \* Blockchain.tip of the open handle
    chainstate,  \* chainstate bucket: key bytes -> list of outputs
    lastOp,      \* the command that ran last and how it ended
    mining,      \* per caller of MineBlockUnified: where it stands between
                 \* its read of "l" and its write of the block
    reindexing,  \* where a running Reindex stands between its transactions
    merkle,      \* a call of NewMerkleTree: its data and what it came to
    queue,       \* the message Queue and what its last call returned
    locking,     \* q.mutex, q.stats.mutex and the goroutines that call the Queue
    pool,        \* the connection Pool, its goroutines and its callers
    filter,      \* the DDoSFilter with its blacklist, and its last answer
    manager,     \* the peer Manager and the call made last
    handler,     \* the message Handler, its worker goroutines and the call made last
    server       \* the blocks in transit, the messages under way and the central node's chain

\* the variables of the network layer
netVars == <<locking, pool, filter, manager, handler, server>>

vars == <<blocks, l, tip, chainstate, lastOp, mining, reindexing, merkle, queue, netVars>>

\* what the calls of one part of the network layer leave alone
chainVars == <<blocks, l, tip, chainstate, lastOp, mining, reindexing, merkle>>
ChainAndQueueUntouched == UNCHANGED <<chainVars, queue, pool, filter, manager, handler, server>>
PoolOnly == UNCHANGED <<chainVars, queue, locking, filter, manager, handler, server>>
FilterOnly == UNCHANGED <<chainVars, queue, locking, pool, manager, handler, server>>
ManagerOnly == UNCHANGED <<chainVars, queue, locking, pool, filter, handler, server>>
HandlerOnly == UNCHANGED <<chainVars, queue, locking, pool, filter, manager, server>>
ServerOnly == UNCHANGED <<chainVars, queue, locking, pool, filter, manager, handler>>

\* the network layer as its constructors leave it
NetInit ==
    /\ locking = NoCalls
    /\ pool = NewPool
    /\ filter = NewDDoSFilter
    /\ manager = NewManager
    /\ handler = NewHandler
    /\ server = NewServer

\* the callers that may be inside MineBlockUnified on one handle
Procs == {"p1", "p2"}

EmptyHash == <<>>

\* ProofOfWork.Run: the digest of the header (previous hash, Merkle root of
\* the transaction IDs)
PowHash(transactions, prevBlockHash) ==
    <<prevBlockHash, [i \in 1..Len(transactions) |-> transactions[i].ID]>>

NewBlock(transactions, prevBlockHash, height) ==
    [Transactions |-> transactions,
     PrevBlockHash |-> prevBlockHash,
     Hash |-> PowHash(transactions, prevBlockHash),
     Height |-> height]

\* Blockchain.GetBestHeight: height of the block named by "l"
GetBestHeight(bks, last) == bks[last].Height

\* BlockchainIterator: the blocks from tip back to genesis, newest first
RECURSIVE IterateFrom(_, _)
IterateFrom(bks, currentHash) ==
    LET block == bks[currentHash] IN
    IF Len(block.PrevBlockHash) = 0
        THEN <<block>>
        ELSE <<block>> \o IterateFrom(bks, block.PrevBlockHash)

RECURSIVE TxsOf(_)
TxsOf(bs) == IF bs = <<>> THEN <<>>
             ELSE Head(bs).Transactions \o TxsOf(Tail(bs))

\* ------------------------------------------------ Blockchain.FindUTXO ---
\* a first pass that keys the spent list by string(in.Txid), the raw bytes,
\* while the second pass looks the hexadecimal text up
SpentTXOsRawKey(bs) ==
    LET txs == TxsOf(bs) IN
    UNION { IF IsCoinbase(txs[i]) THEN {}
            ELSE { <<txs[i].Vin[j].Txid, txs[i].Vin[j].Vout>> :
                     j \in 1..Len(txs[i].Vin) } : i \in 1..Len(txs) }
\* first pass: every (hex txid, vout) named by an input of a non-coinbase
\* transaction
SpentTXOs(bs) ==
    LET txs == TxsOf(bs) IN
    UNION { IF IsCoinbase(txs[i]) THEN {}
            ELSE { <<HexEncodeToString(txs[i].Vin[j].Txid), txs[i].Vin[j].Vout>> :
                     j \in 1..Len(txs[i].Vin) } : i \in 1..Len(txs) }

\* second pass, inner loop: the outputs whose index is not in the spent list
RECURSIVE UnspentOuts(_, _, _, _)
UnspentOuts(vout, outIdx, txIDHex, spentTXOs) ==
    IF vout = <<>> THEN <<>>
    ELSE (IF <<txIDHex, outIdx>> \in spentTXOs THEN <<>> ELSE <<Head(vout)>>)
         \o UnspentOuts(Tail(vout), outIdx + 1, txIDHex, spentTXOs)

\* second pass, outer loops: utxo[txIDHex] = outs for every transaction
RECURSIVE CollectUTXO(_, _, _)
CollectUTXO(txs, spentTXOs, utxo) ==
    IF txs = <<>> THEN utxo
    ELSE LET tx == Head(txs)
             txIDHex == HexEncodeToString(tx.ID)
         IN CollectUTXO(Tail(txs), spentTXOs,
                        Put(utxo, txIDHex, UnspentOuts(tx.Vout, 0, txIDHex, spentTXOs)))

FindUTXO(bks, t) ==
    LET bs == IterateFrom(bks, t)
    IN CollectUTXO(TxsOf(bs), SpentTXOs(bs), EmptyBucket)

\* ---------------------------------------------------- UTXOSet.Reindex ---
\* a rebuild that keeps the bucket and appends the pairs of FindUTXO to the
\* records already there
ReindexAppending(bks, t) ==
    LET utxos == FindUTXO(bks, t)
    IN [k \in (DOMAIN chainstate) \cup (DOMAIN utxos) |->
          (IF k \in DOMAIN chainstate THEN chainstate[k] ELSE <<>>)
          \o (IF k \in DOMAIN utxos THEN utxos[k] ELSE <<>>)]
\* the bucket is dropped, recreated, and every pair of FindUTXO is written
\* under []byte(txID), the bytes of the hexadecimal string
Reindex(bks, t) ==
    LET utxos == FindUTXO(bks, t)
    IN [k \in DOMAIN utxos |-> utxos[k]]

\* ----------------------------------------------------- UTXOSet.Update ---
\* lines 123-127: keep the outputs whose position differs from vin.Vout
RECURSIVE UpdatedOuts(_, _, _)
UpdatedOuts(outs, outIdx, vout) ==
    IF outs = <<>> THEN <<>>
    ELSE (IF outIdx # vout THEN <<Head(outs)>> ELSE <<>>)
         \o UpdatedOuts(Tail(outs), outIdx + 1, vout)

\* one input: b.Get(vin.Txid) of a missing key gives nil and
\* DeserializeOutputs(nil) panics
UpdateVin(st, vin) ==
    IF ~st.ok THEN st
    ELSE IF vin.Txid \notin DOMAIN st.b THEN [ok |-> FALSE, b |-> st.b]
    ELSE LET updatedOuts == UpdatedOuts(st.b[vin.Txid], 0, vin.Vout)
         IN [ok |-> TRUE,
             b |-> IF Len(updatedOuts) = 0 THEN Delete(st.b, vin.Txid)
                   ELSE Put(st.b, vin.Txid, updatedOuts)]

RECURSIVE UpdateVins(_, _)
UpdateVins(st, vins) ==
    IF vins = <<>> THEN st
    ELSE UpdateVins(UpdateVin(st, Head(vins)), Tail(vins))

UpdateTx(st, tx) ==
    LET s1 == IF IsCoinbase(tx) THEN st ELSE UpdateVins(st, tx.Vin)
    IN IF s1.ok THEN [ok |-> TRUE, b |-> Put(s1.b, tx.ID, tx.Vout)] ELSE s1

RECURSIVE UpdateTxs(_, _)
UpdateTxs(st, txs) ==
    IF txs = <<>> THEN st
    ELSE UpdateTxs(UpdateTx(st, Head(txs)), Tail(txs))

\* the whole update is one bbolt transaction: a panic rolls it back
Update(b, block) ==
    LET st == UpdateTxs([ok |-> TRUE, b |-> b], block.Transactions)
    IN IF st.ok THEN st ELSE [ok |-> FALSE, b |-> b]

\* ---------------------------------------- UTXOSet.FindSpendableOutputs --
\* the locked outputs of one record, with the index they have in the record
RECURSIVE LockedOuts(_, _, _, _)
LockedOuts(txID, outs, outIdx, pubkeyHash) ==
    IF outs = <<>> THEN <<>>
    ELSE (IF IsLockedWithKey(Head(outs), pubkeyHash)
            THEN <<[txID |-> txID, outIdx |-> outIdx, Value |-> Head(outs).Value]>>
            ELSE <<>>)
         \o LockedOuts(txID, Tail(outs), outIdx + 1, pubkeyHash)

\* the cursor visits the keys in byte order (order); txID := string(k)
RECURSIVE CursorScan(_, _, _)
CursorScan(cs, order, pubkeyHash) ==
    IF order = <<>> THEN <<>>
    ELSE LockedOuts(Head(order), cs[Head(order)], 0, pubkeyHash)
         \o CursorScan(cs, Tail(order), pubkeyHash)

\* accumulate until the amount is reached (break Work)
RECURSIVE Accumulate(_, _, _, _)
Accumulate(cands, amount, accumulated, unspentOutputs) ==
    IF cands = <<>>
        THEN [accumulated |-> accumulated, unspentOutputs |-> unspentOutputs]
    ELSE LET acc == accumulated + Head(cands).Value
             sel == Append(unspentOutputs, Head(cands))
         IN IF acc >= amount
              THEN [accumulated |-> acc, unspentOutputs |-> sel]
              ELSE Accumulate(Tail(cands), amount, acc, sel)

FindSpendableOutputs(cs, order, pubkeyHash, amount) ==
    Accumulate(CursorScan(cs, order, pubkeyHash), amount, 0, <<>>)

\* ------------------------------------------------- UTXOSet.FindUTXO -----
RECURSIVE SumValues(_)
SumValues(outs) == IF outs = <<>> THEN 0
                   ELSE Head(outs).Value + SumValues(Tail(outs))

RECURSIVE SumKeys(_, _, _)
SumKeys(cs, keys, pubkeyHash) ==
    IF keys = {} THEN 0
    ELSE LET k == CHOOSE x \in keys : TRUE
         IN SumValues(SelectSeq(cs[k], LAMBDA out : IsLockedWithKey(out, pubkeyHash)))
            + SumKeys(cs, keys \ {k}, pubkeyHash)

\* getBalance: the sum of UTXOSet.FindUTXO(pubKeyHash)
Balance(cs, address) == SumKeys(cs, DOMAIN cs, PubKeyHash(address))

\* --------------------------------------------- NewUTXOTransaction -------
\* every order in which a set can be walked
RECURSIVE SeqPerms(_)
SeqPerms(S) ==
    IF S = {} THEN {<<>>}
    ELSE UNION { { <<x>> \o p : p \in SeqPerms(S \ {x}) } : x \in S }

\* the keys of the records that hold an output locked to pubkeyHash; the
\* cursor passes over the other keys without effect
KeysLockedTo(cs, pubkeyHash) ==
    { k \in DOMAIN cs : \E i \in 1..Len(cs[k]) : IsLockedWithKey(cs[k][i], pubkeyHash) }

SelectedTxIDs(found) ==
    { found.unspentOutputs[i].txID : i \in 1..Len(found.unspentOutputs) }

\* "for txid, outs := range validOutputs": the map is ranged in any order
\* (mapOrder), the indices of one txid in the order they were appended
RECURSIVE BuildInputs(_, _, _)
BuildInputs(sel, mapOrder, from) ==
    IF mapOrder = <<>> THEN <<>>
    ELSE LET txid == Head(mapOrder)
             outs == SelectSeq(sel, LAMBDA e : e.txID = txid)
         IN [i \in 1..Len(outs) |->
                TXInput(HexDecodeString(txid), outs[i].outIdx, <<from>>)]
            \o BuildInputs(sel, Tail(mapOrder), from)

\* a transaction builder that does not compare the accumulated value with
\* the amount
NewUTXOTransactionUnchecked(from, to, amount, found, mapOrder) ==
    IF \E txid \in SelectedTxIDs(found) : ~HexDecodeOK(txid)
        THEN [err |-> "HexDecode", tx |-> <<>>]
    ELSE LET inputs == BuildInputs(found.unspentOutputs, mapOrder, from)
             outputs == <<TXOutput(amount, PubKeyHash(to))>>
                        \o (IF found.accumulated > amount
                              THEN <<TXOutput(found.accumulated - amount, PubKeyHash(from))>>
                              ELSE <<>>)
         IN [err |-> "", tx |-> Transaction(inputs, outputs)]
\* NewUTXOTransaction: "Not enough funds" when the accumulated value is below
\* the amount; otherwise one input per selected output, an output for the
\* recipient and the change for the sender
NewUTXOTransaction(from, to, amount, found, mapOrder) ==
    IF found.accumulated < amount
        THEN [err |-> "InsufficientFunds", tx |-> <<>>]
    ELSE IF \E txid \in SelectedTxIDs(found) : ~HexDecodeOK(txid)
        THEN [err |-> "HexDecode", tx |-> <<>>]
    ELSE LET inputs == BuildInputs(found.unspentOutputs, mapOrder, from)
             outputs == <<TXOutput(amount, PubKeyHash(to))>>
                        \o (IF found.accumulated > amount
                              THEN <<TXOutput(found.accumulated - amount, PubKeyHash(from))>>
                              ELSE <<>>)
         IN [err |-> "", tx |-> Transaction(inputs, outputs)]

\* ----------------------------------------------------------- mining -----
\* a new block that repeats the height of the block it is built on
NextHeightOfTip(bks, lastHash) == GetBestHeight(bks, lastHash)
\* height of the new block: best height + 1
NextHeight(bks, lastHash) == GetBestHeight(bks, lastHash) + 1

\* Blockchain.MineBlockUnified: the block that is put under its hash and
\* under "l"
MineBlockUnified(bks, lastHash, transactions, minerAddress) ==
    LET txs == IF minerAddress # NoMiner
                 THEN <<NewCoinbaseTX(minerAddress)>> \o transactions
                 ELSE transactions
    IN NewBlock(txs, lastHash, NextHeight(bks, lastHash))

\* a write that stores the block and moves the handle but leaves the key "l"
\* as it was
PutBlockWithoutTipKey(bks, last, block) ==
    [blocks |-> Put(bks, block.Hash, block), l |-> last, tip |-> block.Hash]
\* the write transaction of MineBlockUnified and of NewBlockchain: the block
\* under its hash, the key "l" and the tip of the handle in one bbolt update
PutBlock(bks, last, block) ==
    [blocks |-> Put(bks, block.Hash, block), l |-> block.Hash, tip |-> block.Hash]

\* the record of the last command: its name, its arguments, the error it
\* ended with ("" when it returned) and the block it committed
Op(op, err, block) ==
    [op |-> op, err |-> err, block |-> block, from |-> "", to |-> "", amount |-> 0,
     miner |-> NoMiner]
SendOp(op, err, block, from, to, amount, miner) ==
    [op |-> op, err |-> err, block |-> block, from |-> from, to |-> to,
     amount |-> amount, miner |-> miner]
\* getbalance: the address asked for and the balance printed
BalanceOp(address, balance) ==
    [op |-> "getbalance", err |-> "", block |-> EmptyHash, from |-> address, to |-> "",
     amount |-> balance, miner |-> NoMiner]

\* a caller outside MineBlockUnified / no Reindex under way
NotMining ==
    [pc |-> "idle", lastHash |-> EmptyHash, transactions |-> <<>>, minerAddress |-> NoMiner]
NotReindexing ==
    [pc |-> "idle", before |-> EmptyBucket, spentTXOs |-> {}, utxos |-> EmptyBucket,
     tips |-> <<>>]

Init ==
    /\ blocks = EmptyBucket
    /\ l = EmptyHash
    /\ tip = EmptyHash
    /\ chainstate = EmptyBucket
    /\ lastOp = Op("none", "", EmptyHash)
    /\ mining = [p \in Procs |-> NotMining]
    /\ reindexing = NotReindexing
    /\ merkle = NoTree
    /\ queue = NewQueue(maxSize)
    /\ NetInit

ChainExists == l # EmptyHash

\* the bound of the model: a block of n transactions may still be mined
Room(n) == Len(TxsOf(IterateFrom(blocks, tip))) + n <= MaxTxs + 1

\* CLI.createBlockchain: NewBlockchain(address) on a fresh database, then
\* Reindex
CreateBlockchain(address) ==
    /\ ~ChainExists
    /\ LET genesis == NewBlock(<<NewCoinbaseTX(address)>>, EmptyHash, 0)
           w == PutBlock(blocks, l, genesis)
       IN /\ blocks' = w.blocks
          /\ l' = w.l
          /\ tip' = w.tip
          /\ chainstate' = Reindex(blocks', tip')
          /\ lastOp' = Op("createblockchain", "", genesis.Hash)
    /\ UNCHANGED <<mining, reindexing, merkle, queue, netVars>>

\* getBalance of the tests and of the reindexing CLI: Reindex on the open
\* chain
ReindexCmd ==
    /\ ChainExists
    /\ chainstate' = Reindex(blocks, tip)
    /\ lastOp' = Op("reindex", "", EmptyHash)
    /\ UNCHANGED <<blocks, l, tip, mining, reindexing, merkle, queue, netVars>>

\* CLI.send with -mine: NewUTXOTransaction, a coinbase for the sender,
\* MineBlock, UTXOSet.Update
Send(from, to, amount) ==
    /\ UNCHANGED <<mining, reindexing, merkle, queue, netVars>>
    /\ ChainExists
    /\ Room(2)
    /\ \E order \in SeqPerms(KeysLockedTo(chainstate, PubKeyHash(from))) :
       \E found \in {FindSpendableOutputs(chainstate, order, PubKeyHash(from), amount)} :
       \E mapOrder \in SeqPerms(SelectedTxIDs(found)) :
       \E r \in {NewUTXOTransaction(from, to, amount, found, mapOrder)} :
         IF r.err # ""
           THEN /\ lastOp' = SendOp("send", r.err, EmptyHash, from, to, amount, NoMiner)
                /\ UNCHANGED <<blocks, l, tip, chainstate>>
           ELSE \E newBlock \in {MineBlockUnified(blocks, l,
                                    <<NewCoinbaseTX(from), r.tx>>, NoMiner)} :
                \E u \in {Update(chainstate, newBlock)} :
                   /\ blocks' = PutBlock(blocks, l, newBlock).blocks
                   /\ l' = PutBlock(blocks, l, newBlock).l
                   /\ tip' = PutBlock(blocks, l, newBlock).tip
                   /\ chainstate' = u.b
                   /\ lastOp' = SendOp("send", IF u.ok THEN "" ELSE "UpdatePanic",
                                       newBlock.Hash, from, to, amount, NoMiner)

\* debugTransaction / the integration test: NewUTXOTransaction, mine the
\* transaction (with a reward when a miner is named), Reindex
SendReindex(from, to, amount, miner) ==
    /\ UNCHANGED <<mining, reindexing, merkle, queue, netVars>>
    /\ ChainExists
    /\ Room(IF miner = NoMiner THEN 1 ELSE 2)
    /\ \E order \in SeqPerms(KeysLockedTo(chainstate, PubKeyHash(from))) :
       \E found \in {FindSpendableOutputs(chainstate, order, PubKeyHash(from), amount)} :
       \E mapOrder \in SeqPerms(SelectedTxIDs(found)) :
       \E r \in {NewUTXOTransaction(from, to, amount, found, mapOrder)} :
         IF r.err # ""
           THEN /\ lastOp' = SendOp("sendreindex", r.err, EmptyHash, from, to, amount, miner)
                /\ UNCHANGED <<blocks, l, tip, chainstate>>
           ELSE \E newBlock \in {MineBlockUnified(blocks, l, <<r.tx>>, miner)} :
                   /\ blocks' = PutBlock(blocks, l, newBlock).blocks
                   /\ l' = PutBlock(blocks, l, newBlock).l
                   /\ tip' = PutBlock(blocks, l, newBlock).tip
                   /\ chainstate' = Reindex(blocks', tip')
                   /\ lastOp' = SendOp("sendreindex", "", newBlock.Hash, from, to, amount, miner)

\* UTXOSet.Update on every block from genesis to tip, starting from an empty
\* chainstate bucket
RECURSIVE UpdateAll(_, _)
UpdateAll(st, bs) ==
    IF bs = <<>> \/ ~st.ok THEN st
    ELSE UpdateAll(Update(st.b, bs[Len(bs)]), SubSeq(bs, 1, Len(bs) - 1))

ApplyBlocksFromEmpty ==
    /\ ChainExists
    /\ LET u == UpdateAll([ok |-> TRUE, b |-> EmptyBucket], IterateFrom(blocks, tip))
       IN /\ chainstate' = u.b
          /\ lastOp' = Op("applyblocks", IF u.ok THEN "" ELSE "UpdatePanic", EmptyHash)
    /\ UNCHANGED <<blocks, l, tip, mining, reindexing, merkle, queue, netVars>>

\* CLI.getBalance: open the chain and sum UTXOSet.FindUTXO of the address;
\* the chainstate is read as the last command left it
GetBalance(address) ==
    /\ ChainExists
    /\ lastOp' = BalanceOp(address, Balance(chainstate, address))
    /\ UNCHANGED <<blocks, l, tip, chainstate, mining, reindexing, merkle, queue, netVars>>

Next ==
    \/ \E address \in Addrs : CreateBlockchain(address)
    \/ \E address \in Addrs : GetBalance(address)
    \/ ReindexCmd
    \/ \E from \in Addrs, to \in Addrs, amount \in Amounts : Send(from, to, amount)
    \/ \E from \in Addrs, to \in Addrs, amount \in Amounts, miner \in Addrs \cup {NoMiner} :
         SendReindex(from, to, amount, miner)
    \/ ApplyBlocksFromEmpty

Spec == Init /\ [][Next]_vars

\* --------------------------------- the transactions of the store, one by one
\* Several callers share one handle; every bbolt View or Update closure is
\* one step, and what a caller keeps between two closures is in mining or
\* reindexing.

\* the bound of the interleaved runs: blocks stored plus blocks being mined
RoomToMine ==
    Cardinality(DOMAIN blocks)
      + Cardinality({ p \in Procs : mining[p].pc # "idle" }) <= MaxTxs - 1

\* the interleaved callers mine without a reward (MineBlockWithoutReward)
StepMiners == {NoMiner}

\* NewUTXOTransaction, then the View of MineBlockUnified that reads "l"
MineReadTip(p, from, to, amount, minerAddress) ==
    /\ ChainExists
    /\ RoomToMine
    /\ mining[p].pc = "idle"
    /\ \E order \in SeqPerms(KeysLockedTo(chainstate, PubKeyHash(from))) :
       \E found \in {FindSpendableOutputs(chainstate, order, PubKeyHash(from), amount)} :
       \E mapOrder \in SeqPerms(SelectedTxIDs(found)) :
       \E r \in {NewUTXOTransaction(from, to, amount, found, mapOrder)} :
          /\ r.err = ""
          /\ mining' = [mining EXCEPT ![p] =
                          [pc |-> "mining", lastHash |-> l, transactions |-> <<r.tx>>,
                           minerAddress |-> minerAddress]]
    /\ UNCHANGED <<blocks, l, tip, chainstate, lastOp, reindexing, merkle, queue, netVars>>

\* the proof of work on top of the hash that was read, then the Update of
\* MineBlockUnified that stores the block, "l" and the tip of the handle
MineCommit(p) ==
    /\ mining[p].pc = "mining"
    /\ LET newBlock == MineBlockUnified(blocks, mining[p].lastHash,
                                        mining[p].transactions, mining[p].minerAddress)
           w == PutBlock(blocks, l, newBlock)
       IN /\ blocks' = w.blocks
          /\ l' = w.l
          /\ tip' = w.tip
    /\ mining' = [mining EXCEPT ![p] = NotMining]
    /\ UNCHANGED <<chainstate, lastOp, reindexing, merkle, queue, netVars>>

\* Reindex, first Update: the chainstate bucket is deleted and created empty
ReindexDropBucket ==
    /\ ChainExists
    /\ reindexing.pc = "idle"
    /\ chainstate' = EmptyBucket
    /\ reindexing' = [NotReindexing EXCEPT !.pc = "dropped", !.before = chainstate]
    /\ UNCHANGED <<blocks, l, tip, lastOp, mining, merkle, queue, netVars>>

\* Blockchain.FindUTXO, first pass: an iterator from the tip of the handle
FindUTXOFirstPass ==
    /\ reindexing.pc = "dropped"
    /\ reindexing' = [reindexing EXCEPT
                        !.pc = "pass1",
                        !.spentTXOs = SpentTXOs(IterateFrom(blocks, tip)),
                        !.tips = <<tip>>]
    /\ UNCHANGED <<blocks, l, tip, chainstate, lastOp, mining, merkle, queue, netVars>>

\* Blockchain.FindUTXO, second pass: a new iterator from the tip of the handle
FindUTXOSecondPass ==
    /\ reindexing.pc = "pass1"
    /\ reindexing' = [reindexing EXCEPT
                        !.pc = "scanned",
                        !.utxos = CollectUTXO(TxsOf(IterateFrom(blocks, tip)),
                                              reindexing.spentTXOs, EmptyBucket),
                        !.tips = Append(reindexing.tips, tip)]
    /\ UNCHANGED <<blocks, l, tip, chainstate, lastOp, mining, merkle, queue, netVars>>

\* Reindex, second Update: every pair of the map is put into the bucket
ReindexWrite ==
    /\ reindexing.pc = "scanned"
    /\ chainstate' = [k \in (DOMAIN chainstate) \cup (DOMAIN reindexing.utxos) |->
                        IF k \in DOMAIN reindexing.utxos THEN reindexing.utxos[k]
                        ELSE chainstate[k]]
    /\ reindexing' = NotReindexing
    /\ UNCHANGED <<blocks, l, tip, lastOp, mining, merkle, queue, netVars>>

StepNext ==
    \/ \E address \in Addrs : CreateBlockchain(address)
    \/ \E p \in Procs, from \in Addrs, to \in Addrs, amount \in Amounts,
          minerAddress \in StepMiners :
         MineReadTip(p, from, to, amount, minerAddress)
    \/ \E p \in Procs : MineCommit(p)
    \/ ReindexDropBucket
    \/ FindUTXOFirstPass
    \/ FindUTXOSecondPass
    \/ ReindexWrite

StepSpec == Init /\ [][StepNext]_vars

\* ------------------------------------------------- the chain, read back --
\* the transactions of the chain from tip to genesis
ChainTxs == IF ChainExists THEN TxsOf(IterateFrom(blocks, tip)) ELSE <<>>
ChainTxSet == { ChainTxs[i] : i \in 1..Len(ChainTxs) }
NonCoinbaseTxs == { tx \in ChainTxSet : ~IsCoinbase(tx) }
CoinbaseCount == Cardinality({ i \in 1..Len(ChainTxs) : IsCoinbase(ChainTxs[i]) })

\* every (transaction ID, output index) an input of the chain names
ReferencedOutputs ==
    UNION { { <<tx.Vin[j].Txid, tx.Vin[j].Vout>> : j \in 1..Len(tx.Vin) } :
              tx \in NonCoinbaseTxs }

\* the transaction ID a chainstate key stands for, in either encoding
KeyTxid(k) == Raw(k.h)

\* the outputs of tx that no input names, in their original order
Unreferenced(tx) ==
    LET keep == { i \in 1..Len(tx.Vout) : <<tx.ID, i - 1>> \notin ReferencedOutputs }
    IN [n \in 1..Cardinality(keep) |->
          tx.Vout[CHOOSE i \in keep : Cardinality({ j \in keep : j < i }) = n - 1]]

\* the command that ran last rebuilt the chainstate with Reindex
Reindexed ==
    /\ lastOp.op \in {"createblockchain", "reindex", "sendreindex"}
    /\ lastOp.err = ""

\* ----------------------------------------------------------------- C1 ---
\* C1: after a reindex of any chain, the chainstate holds exactly the
\* outputs that no input of any transaction of the chain references: every
\* key stands for a transaction of the chain and carries that transaction's
\* unreferenced outputs, no transaction has two keys, and every transaction
\* with an unreferenced output has a key.
C1_ReindexExact ==
    Reindexed =>
        /\ \A k \in DOMAIN chainstate :
              \E tx \in ChainTxSet :
                 KeyTxid(k) = tx.ID /\ chainstate[k] = Unreferenced(tx)
        /\ \A k1, k2 \in DOMAIN chainstate : KeyTxid(k1) = KeyTxid(k2) => k1 = k2
        /\ \A tx \in ChainTxSet :
              Unreferenced(tx) # <<>> => \E k \in DOMAIN chainstate : KeyTxid(k) = tx.ID

\* C1 witness: a reindexed chain of three blocks in which one transaction
\* has lost an output to a later block and kept another
C1_Witness ==
    /\ Reindexed
    /\ ChainExists
    /\ GetBestHeight(blocks, l) >= 2
    /\ \E tx \in ChainTxSet :
          /\ Len(Unreferenced(tx)) = 1
          /\ Len(tx.Vout) = 2

\* ----------------------------------------------------------------- C2 ---
\* C2: Update applied to every block from genesis to tip, starting from an
\* empty chainstate, completes and leaves the same keys and the same output
\* records as one Reindex of that chain.
C2_IncrementalEqualsReindex ==
    lastOp.op = "applyblocks" =>
        /\ lastOp.err = ""
        /\ chainstate = Reindex(blocks, tip)

\* ----------------------------------------------------------------- C3 ---
\* the transaction of the chain a chainstate key stands for
OriginalTx(k) == CHOOSE tx \in ChainTxSet : tx.ID = KeyTxid(k)

\* C3: every (tx_id, index) pair that FindSpendableOutputs returns names the
\* output at position index of the original output list of tx_id: that
\* output exists, is locked to the owner asked for and has the value that
\* was accumulated.
C3_IndicesPreserved ==
    ChainExists =>
        \A from \in Addrs, amount \in Amounts :
        \A order \in SeqPerms(KeysLockedTo(chainstate, PubKeyHash(from))) :
          LET found == FindSpendableOutputs(chainstate, order, PubKeyHash(from), amount)
          IN \A n \in 1..Len(found.unspentOutputs) :
               LET sel == found.unspentOutputs[n]
                   orig == OriginalTx(sel.txID).Vout
               IN /\ sel.outIdx + 1 <= Len(orig)
                  /\ IsLockedWithKey(orig[sel.outIdx + 1], PubKeyHash(from))
                  /\ orig[sel.outIdx + 1].Value = sel.Value

\* ----------------------------------------------------------------- C4 ---
\* output number vout of transaction txid is held by the chainstate cs
Present(cs, txid, vout) ==
    \E k \in DOMAIN cs :
       /\ KeyTxid(k) = txid
       /\ \E tx \in ChainTxSet :
             /\ tx.ID = txid
             /\ vout + 1 <= Len(tx.Vout)
             /\ \E p \in 1..Len(cs[k]) : cs[k][p] = tx.Vout[vout + 1]

\* C4: once Update has been applied to block B, no output named by a
\* non-coinbase input of B is held by the chainstate any more.
C4_SpentOutputsRemoved ==
    (lastOp.op \in {"applyblocks", "send"} /\ lastOp.err = "") =>
        \A i \in 1..Len(blocks[tip].Transactions) :
           LET tx == blocks[tip].Transactions[i]
           IN IsCoinbase(tx) \/
              \A j \in 1..Len(tx.Vin) :
                 ~Present(chainstate, tx.Vin[j].Txid, tx.Vin[j].Vout)

\* ----------------------------------------------------------------- C5 ---
\* the value of output number vin.Vout of transaction vin.Txid as the blocks
\* store records it (0 when the transaction has no such output)
RECURSIVE ReferencedValue(_, _)
ReferencedValue(txs, vins) ==
    IF vins = <<>> THEN 0
    ELSE LET vin == Head(vins)
             prev == { tx \in txs : tx.ID = vin.Txid /\ vin.Vout + 1 <= Len(tx.Vout) }
         IN (IF prev = {} THEN 0
             ELSE (CHOOSE tx \in prev : TRUE).Vout[vin.Vout + 1].Value)
            + ReferencedValue(txs, Tail(vins))

\* the step commits a block
Commits == blocks' # blocks

\* C5: every non-coinbase transaction a send commits spends only outputs
\* that the chainstate held when the send ran, and its outputs are worth at
\* most the outputs its inputs name in the blocks store.
C5_Conservation ==
    [][Commits =>
         \A i \in 1..Len(blocks'[tip'].Transactions) :
            LET tx == blocks'[tip'].Transactions[i]
            IN IsCoinbase(tx) \/
               /\ \A j \in 1..Len(tx.Vin) :
                     Present(chainstate, tx.Vin[j].Txid, tx.Vin[j].Vout)
               /\ SumValues(tx.Vout) <= ReferencedValue(ChainTxSet, tx.Vin)]_vars

\* ----------------------------------------------------------------- C6 ---
RECURSIVE TotalBalance(_, _)
TotalBalance(cs, addrs) ==
    IF addrs = {} THEN 0
    ELSE LET a == CHOOSE x \in addrs : TRUE
         IN Balance(cs, a) + TotalBalance(cs, addrs \ {a})

\* C6: with the chainstate rebuilt as getBalance rebuilds it, the balances
\* of all addresses add up to the block reward times the number of coinbase
\* transactions of the chain.
C6_TotalIsRewardTimesCoinbases ==
    Reindexed => TotalBalance(chainstate, Addrs) = subsidy * CoinbaseCount

\* ----------------------------------------------------------------- C7 ---
\* the chain is a genesis block followed by one block that a send without a
\* miner produced, paying less than the reward to another address
FirstSendDone ==
    /\ lastOp.op = "sendreindex"
    /\ lastOp.err = ""
    /\ GetBestHeight(blocks, l) = 1
    /\ Len(blocks[tip].Transactions) = 1
    /\ lastOp.from # lastOp.to
    /\ lastOp.amount < subsidy

\* C7: after the first send of a < 100 from the genesis owner to another
\* address without a miner, the balances are 100 - a and a, the best height
\* is 1 and the chainstate holds the new transaction's record and nothing
\* else.
C7_FirstSend ==
    FirstSendDone =>
        LET tx == blocks[tip].Transactions[1]
        IN /\ Balance(chainstate, lastOp.from) = subsidy - lastOp.amount
           /\ Balance(chainstate, lastOp.to) = lastOp.amount
           /\ GetBestHeight(blocks, l) = 1
           /\ { KeyTxid(k) : k \in DOMAIN chainstate } = {tx.ID}
           /\ \A k \in DOMAIN chainstate :
                 chainstate[k] = <<TXOutput(lastOp.amount, PubKeyHash(lastOp.to)),
                                   TXOutput(subsidy - lastOp.amount, PubKeyHash(lastOp.from))>>

\* ----------------------------------------------------------------- C8 ---
\* the chain is the genesis block alone and its chainstate was just built
FreshChain ==
    /\ ChainExists
    /\ lastOp.op \in {"createblockchain", "reindex"}
    /\ Len(blocks[l].PrevBlockHash) = 0

\* the address the genesis coinbase pays
GenesisOwner == CHOOSE a \in Addrs : IsLockedWithKey(ChainTxs[Len(ChainTxs)].Vout[1], PubKeyHash(a))

\* C8: right after createblockchain, and after a reindex of that chain, the
\* genesis owner's balance is 100, every other balance is 0, the best height
\* is 0 and the chainstate has one entry with one output of 100 locked to the
\* owner.
C8_Genesis ==
    FreshChain =>
        /\ \E a \in Addrs : IsLockedWithKey(blocks[l].Transactions[1].Vout[1], PubKeyHash(a))
        /\ Balance(chainstate, GenesisOwner) = subsidy
        /\ \A a \in Addrs \ {GenesisOwner} : Balance(chainstate, a) = 0
        /\ GetBestHeight(blocks, l) = 0
        /\ Cardinality(DOMAIN chainstate) = 1
        /\ \A k \in DOMAIN chainstate :
              chainstate[k] = <<TXOutput(100, PubKeyHash(GenesisOwner))>>

\* C8 witness: the genesis chain after a reindex
C8_Witness ==
    /\ FreshChain
    /\ lastOp.op = "reindex"
    /\ Balance(chainstate, "A") = 100

C10_RawKeys ==
    \A k \in DOMAIN chainstate :
       /\ k.enc = "raw"
       /\ \E tx \in ChainTxSet : tx.ID = k

\* ---------------------------------------------------------------- C11 ---
\* C11: no entry of the chainstate bucket has an empty output list, after a
\* reindex as well as after an update: a transaction whose outputs are all
\* spent has no key.
C11_NoEmptyEntries ==
    \A k \in DOMAIN chainstate : Len(chainstate[k]) > 0

\* ---------------------------------------------------------------- C12 ---
\* output number idx of transaction number i of the block is named by an
\* input of a later non-coinbase transaction of the same block
SpentLaterInBlock(block, i, idx) ==
    \E j \in (i + 1)..Len(block.Transactions) :
       LET later == block.Transactions[j]
       IN /\ ~IsCoinbase(later)
          /\ \E n \in 1..Len(later.Vin) :
                /\ later.Vin[n].Txid = block.Transactions[i].ID
                /\ later.Vin[n].Vout = idx

\* the chainstate cs holds output number idx of tx under the ID of tx, at
\* that index
StoredAt(cs, tx, idx) ==
    /\ tx.ID \in DOMAIN cs
    /\ idx + 1 <= Len(cs[tx.ID])
    /\ cs[tx.ID][idx + 1] = tx.Vout[idx + 1]

\* UTXOSet.Update has been called on the tip block by the last command
UpdateCalledOnTip ==
    \/ lastOp.op = "send" /\ lastOp.block # EmptyHash
    \/ lastOp.op = "applyblocks" /\ lastOp.err = ""

\* C12: once Update has been called on block B, every output of every
\* transaction of B is stored under the transaction's ID at its original
\* index, unless a later transaction of B spends it, and then it is absent.
C12_BlockOutputsStored ==
    UpdateCalledOnTip =>
        \A i \in 1..Len(blocks[tip].Transactions) :
           LET tx == blocks[tip].Transactions[i]
           IN \A idx \in 0..(Len(tx.Vout) - 1) :
                 StoredAt(chainstate, tx, idx) <=> ~SpentLaterInBlock(blocks[tip], i, idx)

\* ---------------------------------------------------------------- C13 ---
\* the block named h is in the bucket bks and so is, link by link, every
\* block that is reached from it through PrevBlockHash
RECURSIVE LinksPresent(_, _, _)
LinksPresent(bks, h, fuel) ==
    /\ h \in DOMAIN bks
    /\ \/ Len(bks[h].PrevBlockHash) = 0
       \/ fuel > 0 /\ LinksPresent(bks, bks[h].PrevBlockHash, fuel - 1)

\* C13: after every step, the key "l" of an existing chain names a block of
\* the blocks bucket and every block reached from it has its predecessor in
\* the bucket; a step that stores a block makes "l" name that block, and "l"
\* never moves to anything but a block stored by the same step.
C13_TipAndBlockTogether ==
    [][/\ blocks' # EmptyBucket =>
             LinksPresent(blocks', l', Cardinality(DOMAIN blocks'))
       /\ blocks' # blocks => l' \in (DOMAIN blocks') \ (DOMAIN blocks)
       /\ l' # l => l' \in (DOMAIN blocks') \ (DOMAIN blocks)]_vars

\* C13 witness: a chain of three blocks whose tip key names the newest one
C13_Witness ==
    /\ ChainExists
    /\ Cardinality(DOMAIN blocks) = 3
    /\ LinksPresent(blocks, l, 3)
    /\ blocks[l].Height = 2

C15_MiningSerialized ==
    ChainExists =>
        /\ \A h1, h2 \in DOMAIN blocks :
              h1 # h2 => blocks[h1].PrevBlockHash # blocks[h2].PrevBlockHash
        /\ Len(IterateFrom(blocks, l)) = Cardinality(DOMAIN blocks)

\* ---------------------------------------------------------------- C16 ---
\* C16: while a Reindex is under way, the chainstate bucket that a reader
\* finds (and that a stop of the process would leave behind) is the
\* chainstate as it was when the Reindex began.
C16_ReindexAtomic ==
    reindexing.pc # "idle" => chainstate = reindexing.before

\* ---------------------------------------------------------------- C17 ---
\* C17: the map a full scan returns is the unspent set of the chain of one
\* tip, the tip the scan began with or the tip it ended with.
C17_ScanOfOneTip ==
    reindexing.pc = "scanned" =>
        \E i \in 1..Len(reindexing.tips) :
           reindexing.utxos = FindUTXO(blocks, reindexing.tips[i])

\* ---------------------------------------------------------------- C18 ---
\* C18: when a send stopped after its block was committed and before the
\* chainstate was updated for it, the balance that the next command reports
\* is the balance of the chain including that block, as a reindex at the
\* opening of the chain would give it.
C18_RecoveredAtStartup ==
    [][(/\ lastOp.op = "send"
        /\ lastOp.err = "UpdatePanic"
        /\ lastOp'.op = "getbalance")
       => lastOp'.amount = Balance(Reindex(blocks, tip), lastOp'.from)]_vars

\* ---------------------------------------------------------------- C19 ---
\* C19: a block mined for a miner starts with a coinbase of one output of
\* 100 locked to the miner, followed by the transfer that was supplied; a
\* block mined without a miner holds the transfer alone; and on the chain
\* that is genesis plus one such block mined for the sender, the sender owns
\* 100 - amount + 100 and the recipient owns the amount.
C19_MinedBlockContents ==
    (lastOp.op = "sendreindex" /\ lastOp.err = "") =>
        LET txs == blocks[tip].Transactions
            transfer == txs[Len(txs)]
        IN /\ ~IsCoinbase(transfer)
           /\ transfer.Vout[1] = TXOutput(lastOp.amount, PubKeyHash(lastOp.to))
           /\ lastOp.miner = NoMiner => Len(txs) = 1
           /\ lastOp.miner # NoMiner =>
                 /\ Len(txs) = 2
                 /\ IsCoinbase(txs[1])
                 /\ txs[1].Vout = <<TXOutput(100, PubKeyHash(lastOp.miner))>>
           /\ (/\ GetBestHeight(blocks, l) = 1
               /\ lastOp.miner = lastOp.from
               /\ lastOp.to # lastOp.from) =>
                 /\ Balance(chainstate, lastOp.from) = 100 - lastOp.amount + 100
                 /\ Balance(chainstate, lastOp.to) = lastOp.amount

\* ---------------------------------------------------------------- C20 ---
\* the transaction tx is the transfer NewUTXOTransaction builds from the
\* selection found: not a coinbase, one input per selected (txid, index)
\* pair, the amount to the recipient first, the change to the sender second
\* exactly when something is left, outputs summing to the accumulated value
TransferOf(tx, found, from, to, amount) ==
    /\ ~IsCoinbase(tx)
    /\ Len(tx.Vin) = Len(found.unspentOutputs)
    /\ { <<tx.Vin[i].Txid, tx.Vin[i].Vout>> : i \in 1..Len(tx.Vin) }
         = { <<HexDecodeString(found.unspentOutputs[i].txID), found.unspentOutputs[i].outIdx>> :
               i \in 1..Len(found.unspentOutputs) }
    /\ tx.Vout[1] = TXOutput(amount, PubKeyHash(to))
    /\ Len(tx.Vout) = 2 <=> found.accumulated > amount
    /\ Len(tx.Vout) = 2 => tx.Vout[2] = TXOutput(found.accumulated - amount, PubKeyHash(from))
    /\ SumValues(tx.Vout) = found.accumulated

\* C20: a transfer asked for by a sender whose unspent outputs cover the
\* amount is built: the command does not end in NewUTXOTransaction, and the
\* transaction it commits is the transfer of some selection of
\* FindSpendableOutputs.
C20_SufficientFundsBuildTransfer ==
    [][(/\ lastOp'.op \in {"send", "sendreindex"}
        /\ Balance(chainstate, lastOp'.from) >= lastOp'.amount) =>
          /\ lastOp'.err \notin {"InsufficientFunds", "HexDecode"}
          /\ LET txs == blocks'[lastOp'.block].Transactions
                 pkh == PubKeyHash(lastOp'.from)
             IN \E order \in SeqPerms(KeysLockedTo(chainstate, pkh)) :
                  TransferOf(txs[Len(txs)],
                             FindSpendableOutputs(chainstate, order, pkh, lastOp'.amount),
                             lastOp'.from, lastOp'.to, lastOp'.amount)]_vars

\* ------------------------------------------------------------ queries ---
\* the amounts a caller asks FindSpendableOutputs for: nothing, less than
\* one reward, one reward, more than any owner holds
QueryAmounts == {0, 40, 100, 300}

\* the record of a call of FindSpendableOutputs: the owner, the amount and
\* the pair (accumulated, unspentOutputs) it returned
FoundOp(address, amount, found) ==
    [op |-> "findspendable", err |-> "", block |-> EmptyHash, from |-> address, to |-> "",
     amount |-> amount, miner |-> NoMiner, found |-> found]

\* UTXOSet.FindSpendableOutputs(pubkeyHash, amount) on the chainstate as it is
FindSpendable(address, amount) ==
    /\ ChainExists
    /\ \E order \in SeqPerms(KeysLockedTo(chainstate, PubKeyHash(address))) :
         lastOp' = FoundOp(address, amount,
                           FindSpendableOutputs(chainstate, order, PubKeyHash(address), amount))
    /\ UNCHANGED <<blocks, l, tip, chainstate, mining, reindexing, merkle, queue, netVars>>

\* ---------------------------------------------------- empty mining batch --
\* MineBlockUnified(nil, ""): no coinbase is added, NewBlock runs the proof
\* of work over the Merkle root of no transaction; the block is stored only
\* when that returns
MineEmptyBatch ==
    /\ ChainExists
    /\ LET root == HashTransactions(<<>>)
           newBlock == MineBlockUnified(blocks, l, <<>>, NoMiner)
       IN IF root.err # ""
            THEN /\ lastOp' = Op("mineempty", root.err, EmptyHash)
                 /\ UNCHANGED <<blocks, l, tip>>
            ELSE /\ blocks' = PutBlock(blocks, l, newBlock).blocks
                 /\ l' = PutBlock(blocks, l, newBlock).l
                 /\ tip' = PutBlock(blocks, l, newBlock).tip
                 /\ lastOp' = Op("mineempty", "", newBlock.Hash)
    /\ UNCHANGED <<chainstate, mining, reindexing, merkle, queue, netVars>>

\* the reindex command run once more, right after a command that ended with
\* a Reindex
ReindexAgain ==
    /\ ChainExists
    /\ Reindexed
    /\ chainstate' = Reindex(blocks, tip)
    /\ lastOp' = Op("reindexagain", "", EmptyHash)
    /\ UNCHANGED <<blocks, l, tip, mining, reindexing, merkle, queue, netVars>>

\* UTXOSet.Update called once more with the tip block, right after a command
\* whose Update brought that block into the chainstate
ReplayUpdate ==
    /\ ChainExists
    /\ UpdateCalledOnTip
    /\ lastOp.err = ""
    /\ LET u == Update(chainstate, blocks[tip])
       IN /\ chainstate' = u.b
          /\ lastOp' = Op("replayupdate", IF u.ok THEN "" ELSE "UpdatePanic", tip)
    /\ UNCHANGED <<blocks, l, tip, mining, reindexing, merkle, queue, netVars>>

\* the commands that build a chain and its chainstate, and the calls made
\* on them
QueryNext ==
    \/ \E address \in Addrs : CreateBlockchain(address)
    \/ ReindexCmd
    \/ \E from \in Addrs, to \in Addrs, amount \in Amounts : Send(from, to, amount)
    \/ \E from \in Addrs, to \in Addrs, amount \in Amounts, miner \in StepMiners :
         SendReindex(from, to, amount, miner)
    \/ \E address \in Addrs, amount \in QueryAmounts : FindSpendable(address, amount)
    \/ MineEmptyBatch

QuerySpec == Init /\ [][QueryNext]_vars

\* the commands that build a chain and its chainstate, and Reindex or Update
\* run a second time
ReplayNext ==
    \/ \E address \in Addrs : CreateBlockchain(address)
    \/ ReindexCmd
    \/ \E from \in Addrs, to \in Addrs, amount \in Amounts : Send(from, to, amount)
    \/ \E from \in Addrs, to \in Addrs, amount \in Amounts, miner \in StepMiners :
         SendReindex(from, to, amount, miner)
    \/ ApplyBlocksFromEmpty
    \/ ReindexAgain
    \/ ReplayUpdate

ReplaySpec == Init /\ [][ReplayNext]_vars

\* ---------------------------------------------------------------- C21 ---
\* the (txid, index) pairs of a selection, and those of every output of the
\* chainstate locked to pkh
SelectedPairs(sel) == { <<sel[i].txID, sel[i].outIdx>> : i \in 1..Len(sel) }
OwnedPairs(cs, pkh) ==
    { <<k, i - 1>> : k \in DOMAIN cs, i \in 1..MaxTxs + 1 } \cap
    { pr \in (DOMAIN cs) \X (0..MaxTxs) :
        /\ pr[2] + 1 <= Len(cs[pr[1]])
        /\ IsLockedWithKey(cs[pr[1]][pr[2] + 1], pkh) }

\* C21: FindSpendableOutputs returns only outputs of the chainstate locked to
\* the owner, each once, accumulated being the sum of their values; the
\* selection stops as soon as the amount is reached (without its last output
\* it is below the amount); an owner holding less than the amount gets the
\* total and every output.
C21_SelectionIsMinimalPrefix ==
    lastOp.op = "findspendable" =>
        LET sel == lastOp.found.unspentOutputs
            pkh == PubKeyHash(lastOp.from)
        IN /\ \A i \in 1..Len(sel) :
                /\ <<sel[i].txID, sel[i].outIdx>> \in OwnedPairs(chainstate, pkh)
                /\ sel[i].Value = chainstate[sel[i].txID][sel[i].outIdx + 1].Value
           /\ Cardinality(SelectedPairs(sel)) = Len(sel)
           /\ lastOp.found.accumulated = SumValues(sel)
           /\ Len(sel) > 0 =>
                lastOp.found.accumulated - sel[Len(sel)].Value < lastOp.amount
           /\ Balance(chainstate, lastOp.from) < lastOp.amount =>
                /\ lastOp.found.accumulated = Balance(chainstate, lastOp.from)
                /\ SelectedPairs(sel) = OwnedPairs(chainstate, pkh)

\* ---------------------------------------------------------------- C22 ---
\* C22: asked for the amount 0, FindSpendableOutputs returns 0 and an empty
\* selection, whoever the owner is.
C22_ZeroAmountSelectsNothing ==
    (lastOp.op = "findspendable" /\ lastOp.amount = 0) =>
        /\ lastOp.found.accumulated = 0
        /\ lastOp.found.unspentOutputs = <<>>

\* ---------------------------------------------------------------- C23 ---
\* C23: mining without a miner and without transactions is rejected with
\* EmptyMiningBatch and leaves the blocks, the tip and the chainstate as they
\* were.
C23_EmptyBatchRejected ==
    [][lastOp'.op = "mineempty" =>
          /\ lastOp'.err = "EmptyMiningBatch"
          /\ UNCHANGED <<blocks, l, tip, chainstate>>]_vars

\* ------------------------------------------------- calls of NewMerkleTree --
LeafSeqs == UNION { [1..n -> Leaves] : n \in 0..MaxLeaves }

MerkleInit ==
    /\ blocks = EmptyBucket
    /\ l = EmptyHash
    /\ tip = EmptyHash
    /\ chainstate = EmptyBucket
    /\ lastOp = Op("none", "", EmptyHash)
    /\ mining = [p \in Procs |-> NotMining]
    /\ reindexing = NotReindexing
    /\ merkle \in { [pc |-> "called", data |-> d, err |-> "", RootNode |-> Nil] : d \in LeafSeqs }
    /\ queue = NewQueue(maxSize)
    /\ NetInit

\* NewMerkleTree(data) runs to its return or to its panic
BuildTree ==
    /\ merkle.pc = "called"
    /\ merkle' = [pc |-> "returned", data |-> merkle.data,
                  err |-> NewMerkleTree(merkle.data).err,
                  RootNode |-> NewMerkleTree(merkle.data).RootNode]
    /\ UNCHANGED <<blocks, l, tip, chainstate, lastOp, mining, reindexing, queue, netVars>>

MerkleNext == BuildTree

MerkleSpec == MerkleInit /\ [][MerkleNext]_vars

\* ---------------------------------------------------------------- C24 ---
\* the leaves under a node, left to right
RECURSIVE LeavesOf(_)
LeavesOf(node) ==
    IF node.Left = Nil /\ node.Right = Nil THEN <<node>>
    ELSE LeavesOf(node.Left) \o LeavesOf(node.Right)

\* every inner node under node carries the digest of its two children
RECURSIVE PairedDown(_)
PairedDown(node) ==
    \/ node.Left = Nil /\ node.Right = Nil
    \/ /\ node.Data = Raw(<<node.Left.Data, node.Right.Data>>)
       /\ PairedDown(node.Left)
       /\ PairedDown(node.Right)

\* C24: for every non-empty sequence of leaves NewMerkleTree returns one root
\* whose leaves, left to right, are the data with the last leaf repeated when
\* their number is odd, every node above them being the digest of the pair
\* under it.
C24_OneRootForAnyLength ==
    (merkle.pc = "returned" /\ Len(merkle.data) >= 1) =>
        /\ merkle.err = ""
        /\ LeavesOf(merkle.RootNode)
             = [i \in 1..Len(EvenData(merkle.data)) |->
                  NewMerkleNode(Nil, Nil, EvenData(merkle.data)[i])]
        /\ PairedDown(merkle.RootNode)

\* ------------------------------------------------- blocks from the network --
\* ProofOfWork.Validate: the digest of the header is the stored hash (and is
\* below the target, as every digest ProofOfWork.Run returns)
Validate(block) == block.Hash = PowHash(block.Transactions, block.PrevBlockHash)

\* the hash of a block this node never stored
UnknownHash == <<EmptyHash, <<>>>>

\* a stored hash the proof of work does not give
ForgedHash(hash) == <<hash, <<>>>>

\* the blocks a peer may send: a transfer built on the peer's index of the
\* same chain and mined without a reward, on the tip or on a block this node
\* does not have; on the tip also with a hash the proof of work did not give,
\* or with none
PeerBlocks ==
    IF ~ChainExists THEN {} ELSE
    LET peerState == Reindex(blocks, tip)
    IN UNION { UNION { UNION {
         LET found == FindSpendableOutputs(peerState, order, PubKeyHash(from), amount)
             r == NewUTXOTransaction(from, to, amount, found, <<>>)
         IN IF found.accumulated < amount \/ Len(found.unspentOutputs) # 1 THEN {}
            ELSE LET tx == NewUTXOTransaction(from, to, amount, found,
                                              <<found.unspentOutputs[1].txID>>).tx
                     mined == NewBlock(<<tx>>, prev, GetBestHeight(blocks, l) + 1)
                 IN IF prev = UnknownHash THEN { mined }
                    ELSE { mined,
                           [mined EXCEPT !.Hash = ForgedHash(mined.Hash)],
                           [mined EXCEPT !.Hash = EmptyHash] }
         : order \in SeqPerms(KeysLockedTo(peerState, PubKeyHash(from))) }
         : prev \in {l, UnknownHash} }
         : from \in Addrs, to \in Addrs, amount \in Amounts }

\* Blockchain.AddBlock(block): verify the proof of work, check that the
\* previous block is stored, write the block and the key "l", then
\* UTXOSet.Update
AddBlockUnverified(bks, last, cs, block) ==
    IF block.PrevBlockHash \notin DOMAIN bks
        THEN [err |-> "InvalidBlock", blocks |-> bks, l |-> last, chainstate |-> cs]
    ELSE LET w == PutBlock(bks, last, block)
             u == Update(cs, block)
         IN [err |-> IF u.ok THEN "" ELSE "UpdatePanic",
             blocks |-> w.blocks, l |-> w.l, chainstate |-> u.b]
AddBlock(bks, last, cs, block) ==
    IF ~Validate(block) \/ block.PrevBlockHash \notin DOMAIN bks
        THEN [err |-> "InvalidBlock", blocks |-> bks, l |-> last, chainstate |-> cs]
    ELSE LET w == PutBlock(bks, last, block)
             u == Update(cs, block)
         IN [err |-> IF u.ok THEN "" ELSE "UpdatePanic",
             blocks |-> w.blocks, l |-> w.l, chainstate |-> u.b]

\* the bound of the runs with peers: the blocks the store may come to hold
MaxBlocks == 3
NetRoom == ChainExists /\ Cardinality(DOMAIN blocks) < MaxBlocks /\ Room(1)

\* the record of a block message: the handler, how it ended, the block
ReceivedOp(op, err, block) ==
    [op |-> op, err |-> err, block |-> block.Hash, from |-> "", to |-> "", amount |-> 0,
     miner |-> NoMiner, received |-> block]

\* BlockSyncer.validateBlock: the block has a hash
validateBlock(block) == Len(block.Hash) > 0

\* BlockSyncer.handleBlockMessage: validateBlock, then AddBlock
handleBlockMessage(block) ==
    /\ ChainExists
    /\ NetRoom
    /\ IF ~validateBlock(block)
         THEN /\ lastOp' = ReceivedOp("handleBlockMessage", "ValidationFailed", block)
              /\ UNCHANGED <<blocks, l, tip, chainstate>>
         ELSE LET a == AddBlock(blocks, l, chainstate, block)
              IN /\ blocks' = a.blocks
                 /\ l' = a.l
                 /\ tip' = a.l
                 /\ chainstate' = a.chainstate
                 /\ lastOp' = ReceivedOp("handleBlockMessage", a.err, block)
    /\ UNCHANGED <<mining, reindexing, merkle, queue, netVars>>

\* handleBlock with no block in transit: AddBlock, its error dropped, then
\* Reindex; a panic inside AddBlock ends the handler
handleBlock(block) ==
    /\ ChainExists
    /\ NetRoom
    /\ LET a == AddBlock(blocks, l, chainstate, block)
       IN /\ blocks' = a.blocks
          /\ l' = a.l
          /\ tip' = a.l
          /\ chainstate' = IF a.err = "UpdatePanic" THEN a.chainstate
                           ELSE Reindex(a.blocks, a.l)
          /\ lastOp' = ReceivedOp("handleBlock", a.err, block)
    /\ UNCHANGED <<mining, reindexing, merkle, queue, netVars>>

\* the node creates its chain, mines transfers of its own and takes blocks
\* from its peers
NetNext ==
    \/ \E address \in Addrs : CreateBlockchain(address)
    \/ \E from \in Addrs, to \in Addrs, amount \in Amounts :
         NetRoom /\ SendReindex(from, to, amount, NoMiner)
    \/ \E block \in PeerBlocks : handleBlockMessage(block)
    \/ \E block \in PeerBlocks : handleBlock(block)

NetSpec == Init /\ [][NetNext]_vars

\* ---------------------------------------------------------------- C25 ---
\* C25: every block of the blocks bucket, mined here or received from a
\* peer, passes the validation of its proof of work.
C25_StoredBlocksValidate ==
    \A h \in DOMAIN blocks : /\ blocks[h].Hash = h
                             /\ Validate(blocks[h])

\* a block received from a peer is the third block of the store
C25_Witness ==
    /\ lastOp.op \in {"handleBlock", "handleBlockMessage"}
    /\ lastOp.block \in DOMAIN blocks
    /\ blocks[lastOp.block] = lastOp.received
    /\ l = lastOp.block
    /\ Cardinality(DOMAIN blocks) = 3

\* ---------------------------------------------------------------- C26 ---
\* Update has brought the block into the chainstate cs: every output of its
\* transactions is stored unless a later transaction of the block spends it,
\* and no output its inputs name is left
AppliedTo(cs, block) ==
    \A i \in 1..Len(block.Transactions) :
       LET tx == block.Transactions[i]
       IN /\ \A idx \in 0..(Len(tx.Vout) - 1) :
                StoredAt(cs, tx, idx) <=> ~SpentLaterInBlock(block, i, idx)
          /\ IsCoinbase(tx) \/
             \A j \in 1..Len(tx.Vin) :
                \A k \in DOMAIN cs :
                   KeyTxid(k) = tx.Vin[j].Txid => Len(cs[k]) <= tx.Vin[j].Vout

\* C26: AddBlock turns away a block whose previous block is not stored, with
\* InvalidBlock and without touching the blocks, the tip or the chainstate;
\* a block it does not turn away is stored, becomes the tip and is applied to
\* the chainstate.
C26_AddBlockRejectsOrApplies ==
    [][lastOp'.op = "handleBlockMessage" /\ lastOp'.err # "ValidationFailed" =>
         LET block == lastOp'.received
         IN /\ block.PrevBlockHash \notin DOMAIN blocks =>
                 /\ lastOp'.err = "InvalidBlock"
                 /\ UNCHANGED <<blocks, l, tip, chainstate>>
            /\ lastOp'.err # "InvalidBlock" =>
                 /\ block.Hash \in DOMAIN blocks'
                 /\ blocks'[block.Hash] = block
                 /\ l' = block.Hash
                 /\ lastOp'.err = ""
                 /\ AppliedTo(chainstate', block)]_vars

C28_ReplayChangesNothing ==
    [][lastOp'.op = "replayupdate" => chainstate' = chainstate]_vars

\* -------------------------------------------------- calls of the Queue ---
\* the messages the queue holds in any of its three places
InQueue == queue.stats.PendingMessages + queue.stats.ProcessingMessages
             + queue.stats.FailedMessages

ChainUntouched ==
    UNCHANGED <<blocks, l, tip, chainstate, lastOp, mining, reindexing, merkle, netVars>>

\* Queue.Enqueue
Enqueue(message) ==
    /\ InQueue < MaxMessages
    /\ IF Len(queue.messages) >= queue.maxSize
         THEN queue' = [queue EXCEPT !.last = Returned("Enqueue", "ErrQueueFull", message)]
       ELSE IF message.ID \in DOMAIN queue.pending
         THEN queue' = [queue EXCEPT !.last = Returned("Enqueue", "ErrMessageExists", message)]
       ELSE queue' = [queue EXCEPT
                        !.messages = HeapPush(queue.messages, message),
                        !.pending = Put(queue.pending, message.ID, message),
                        !.stats.PendingMessages = @ + 1,
                        !.last = Returned("Enqueue", "", message)]
    /\ ChainUntouched

\* Queue.Dequeue
Dequeue ==
    /\ IF Len(queue.messages) = 0
         THEN queue' = [queue EXCEPT !.last = Returned("Dequeue", "", NilMessage)]
         ELSE LET popped == HeapPop(queue.messages)
              IN queue' = [queue EXCEPT
                     !.messages = popped.messages,
                     !.pending = Delete(queue.pending, popped.message.ID),
                     !.processing = Put(queue.processing, popped.message.ID,
                                        [popped.message EXCEPT !.Handed = @ + 1]),
                     !.stats.PendingMessages = @ - 1,
                     !.stats.ProcessingMessages = @ + 1,
                     !.last = Returned("Dequeue", "", popped.message)]
    /\ ChainUntouched

\* Queue.MarkProcessed
MarkProcessed(messageID) ==
    /\ IF messageID \notin DOMAIN queue.processing
         THEN queue' = [queue EXCEPT !.last = Returned("MarkProcessed", "", NilMessage)]
         ELSE queue' = [queue EXCEPT
                   !.processing = Delete(queue.processing, messageID),
                   !.stats.ProcessingMessages = @ - 1,
                   !.last = Returned("MarkProcessed", "", NilMessage)]
    /\ ChainUntouched

\* Queue.MarkFailed: the message leaves processing with one retry more and
\* goes back to the heap when it can be retried, to failed otherwise
MarkFailed(messageID, expired) ==
    /\ IF messageID \notin DOMAIN queue.processing
         THEN queue' = [queue EXCEPT !.last = Returned("MarkFailed", "", NilMessage)]
         ELSE LET message == [queue.processing[messageID] EXCEPT !.Retries = @ + 1]
              IN IF CanRetry(message, expired)
                   THEN queue' = [queue EXCEPT
                          !.processing = Delete(queue.processing, messageID),
                          !.messages = HeapPush(queue.messages, message),
                          !.pending = Put(queue.pending, message.ID, message),
                          !.stats.PendingMessages = @ + 1,
                          !.stats.ProcessingMessages = @ - 1,
                          !.last = Failed(message, expired)]
                   ELSE queue' = [queue EXCEPT
                          !.processing = Delete(queue.processing, messageID),
                          !.failed = Put(queue.failed, message.ID, message),
                          !.stats.FailedMessages = @ + 1,
                          !.stats.ProcessingMessages = @ - 1,
                          !.last = Failed(message, expired)]
    /\ ChainUntouched

\* Queue.RetryFailedMessage
RetryFailedMessage(messageID) ==
    /\ IF messageID \notin DOMAIN queue.failed
         THEN queue' = [queue EXCEPT
                          !.last = Returned("RetryFailedMessage", "ErrMessageNotFound", NilMessage)]
         ELSE LET message == [queue.failed[messageID] EXCEPT !.Retries = 0, !.Handed = 0]
              IN queue' = [queue EXCEPT
                     !.failed = Delete(queue.failed, messageID),
                     !.messages = HeapPush(queue.messages, message),
                     !.pending = Put(queue.pending, message.ID, message),
                     !.stats.FailedMessages = @ - 1,
                     !.stats.PendingMessages = @ + 1,
                     !.last = Returned("RetryFailedMessage", "", message)]
    /\ ChainUntouched

\* Queue.Clear: the heap and the three maps are made anew, two of the
\* three counters are set to 0
Clear ==
    /\ queue' = [queue EXCEPT
                   !.messages = <<>>,
                   !.pending = EmptyBucket,
                   !.processing = EmptyBucket,
                   !.failed = EmptyBucket,
                   !.stats.PendingMessages = 0,
                   !.stats.ProcessingMessages = 0,
                   !.last = Returned("Clear", "", NilMessage)]
    /\ ChainUntouched

\* Queue.Cleanup: the failed messages that IsExpired says have expired are
\* deleted and the counter goes down by their number
Cleanup(expired) ==
    /\ LET cleaned == DOMAIN queue.failed \cap expired
       IN queue' = [queue EXCEPT
                      !.failed = [id \in DOMAIN queue.failed \ cleaned |-> queue.failed[id]],
                      !.stats.FailedMessages = @ - Cardinality(cleaned),
                      !.last = Returned("Cleanup", "", NilMessage)]
    /\ ChainUntouched

QueueNext ==
    \/ \E message \in Messages : Enqueue(message)
    \/ Dequeue
    \/ \E id \in MessageIDs : MarkProcessed(id)
    \/ \E id \in MessageIDs, expired \in BOOLEAN : MarkFailed(id, expired)
    \/ \E id \in MessageIDs : RetryFailedMessage(id)
    \/ Clear
    \/ \E expired \in SUBSET MessageIDs : Cleanup(expired)

QueueSpec == Init /\ [][QueueNext]_vars

\* ---------------------------------------------------------------- C29 ---
\* the messages of the heap, as a set of positions
Pending(q) == 1..Len(q.messages)

\* C29: Dequeue returns nil exactly when no message is pending; otherwise it
\* returns a pending message such that no pending message has a higher
\* priority and none of the same priority was created earlier.
C29_DequeueHighestEarliest ==
    [][queue'.last.op = "Dequeue" =>
         IF Pending(queue) = {}
           THEN queue'.last.message = NilMessage
           ELSE /\ queue'.last.message # NilMessage
                /\ \E i \in Pending(queue) : queue.messages[i] = queue'.last.message
                /\ \A i \in Pending(queue) :
                      /\ queue.messages[i].Priority <= queue'.last.message.Priority
                      /\ queue.messages[i].Priority = queue'.last.message.Priority =>
                            queue'.last.message.CreatedAt <= queue.messages[i].CreatedAt]_vars

\* Dequeue has returned the earlier of the two messages of high priority
\* and left behind the later one and the message of normal priority, which
\* is older than both
C29_Witness ==
    /\ queue.last.op = "Dequeue"
    /\ queue.last.message.ID = "m2"
    /\ \E i, j \in Pending(queue) :
          /\ queue.messages[i].ID = "m3"
          /\ queue.messages[j].ID = "m1"

\* ---------------------------------------------------------------- C30 ---
\* C30: Enqueue on a queue that holds maxSize pending messages returns an
\* error and changes nothing, and whatever is called the heap never holds
\* more than maxSize messages.
C30_CapacityIsHardBound ==
    [][/\ (queue'.last.op = "Enqueue" /\ Len(queue.messages) >= queue.maxSize) =>
             /\ queue'.last.err # ""
             /\ queue'.messages = queue.messages
             /\ queue'.pending = queue.pending
             /\ queue'.processing = queue.processing
             /\ queue'.failed = queue.failed
       /\ Len(queue'.messages) <= queue'.maxSize]_vars

\* ---------------------------------------------------------------- C31 ---
Max(a, b) == IF a >= b THEN a ELSE b

\* C31: MarkFailed on a message in processing takes it out of processing
\* with one retry more; it puts it back among the pending ones exactly when
\* the new count is below MaxRetries and the message has not expired, and
\* otherwise puts it among the failed ones and counts one failed message
\* more. A message is therefore handed out by Dequeue at most
\* max(1, MaxRetries) times between being enqueued (or retried by
\* RetryFailedMessage) and failing.
C31_MarkFailedRetriesOrFails ==
    [][/\ (queue'.last.op = "MarkFailed" /\ queue'.last.message # NilMessage) =>
            LET after == queue'.last.message
                id == after.ID
            IN /\ id \in DOMAIN queue.processing
               /\ after = [queue.processing[id] EXCEPT !.Retries = @ + 1]
               /\ id \notin DOMAIN queue'.processing
               /\ IF after.Retries < after.MaxRetries /\ ~queue'.last.expired
                    THEN /\ id \in DOMAIN queue'.pending
                         /\ queue'.pending[id] = after
                         /\ Len(queue'.messages) = Len(queue.messages) + 1
                         /\ \E i \in 1..Len(queue'.messages) : queue'.messages[i] = after
                         /\ queue'.failed = queue.failed
                         /\ queue'.stats.FailedMessages = queue.stats.FailedMessages
                    ELSE /\ id \in DOMAIN queue'.failed
                         /\ queue'.failed[id] = after
                         /\ queue'.messages = queue.messages
                         /\ queue'.pending = queue.pending
                         /\ queue'.stats.FailedMessages = queue.stats.FailedMessages + 1
       /\ \A id \in DOMAIN queue'.processing :
             queue'.processing[id].Handed
                 <= Max(1, queue'.processing[id].MaxRetries)]_vars

\* a message that may be tried twice has been handed out twice and has
\* failed twice without expiring, and is now among the failed ones
C31_Witness ==
    /\ queue.last.op = "MarkFailed"
    /\ queue.last.message # NilMessage
    /\ ~queue.last.expired
    /\ queue.last.message.MaxRetries = 2
    /\ queue.last.message.Retries = 2
    /\ queue.last.message.Handed = 2
    /\ queue.last.message.ID \in DOMAIN queue.failed

\* ---------------------------------------------------------------- C35 ---
\* C35: whatever has been called, no message ID is in two of the pending,
\* processing and failed maps, and the counters PendingMessages,
\* ProcessingMessages and FailedMessages are the sizes of these maps.
C35_DisjointAndCounted ==
    /\ DOMAIN queue.pending \cap DOMAIN queue.processing = {}
    /\ DOMAIN queue.pending \cap DOMAIN queue.failed = {}
    /\ DOMAIN queue.processing \cap DOMAIN queue.failed = {}
    /\ queue.stats.PendingMessages = Cardinality(DOMAIN queue.pending)
    /\ queue.stats.ProcessingMessages = Cardinality(DOMAIN queue.processing)
    /\ queue.stats.FailedMessages = Cardinality(DOMAIN queue.failed)

\* ------------------------------------------- calls of the Queue, by lock ---
\* sync.RWMutex: Lock waits until nobody holds the lock; RLock waits while
\* a writer holds it or has called Lock and is waiting for it
CanLock(m) == m.writer = "" /\ m.readers = {}
CanRLock(m, waitingPc) ==
    /\ m.writer = ""
    /\ \A g \in Goroutines : locking.pc[g] # waitingPc

\* a goroutine calls Enqueue, Dequeue, MarkProcessed or MarkFailed
CallQueue(g, call) ==
    /\ locking.pc[g] = "idle"
    /\ locking' = [locking EXCEPT !.pc[g] = "Lock", !.call[g] = call]
    /\ ChainAndQueueUntouched

\* q.mutex.Lock()
LockMutex(g) ==
    /\ locking.pc[g] = "Lock"
    /\ CanLock(locking.mutex)
    /\ locking' = [locking EXCEPT !.mutex.writer = g, !.pc[g] = "locked"]
    /\ ChainAndQueueUntouched

\* the part under q.mutex alone: found says whether the call gets past its
\* early return (room and a new ID for Enqueue, a message in the heap for
\* Dequeue, the ID in processing for MarkProcessed and MarkFailed); if not
\* the deferred q.mutex.Unlock() runs
UnderMutex(g, found) ==
    /\ locking.pc[g] = "locked"
    /\ IF found
         THEN locking' = [locking EXCEPT !.pc[g] = "statsLock"]
         ELSE locking' = [locking EXCEPT !.mutex.writer = "", !.pc[g] = "idle",
                                         !.call[g] = ""]
    /\ ChainAndQueueUntouched

\* q.stats.mutex.Lock(), with q.mutex held
LockStats(g) ==
    /\ locking.pc[g] = "statsLock"
    /\ CanLock(locking.statsMutex)
    /\ locking' = [locking EXCEPT !.statsMutex.writer = g, !.pc[g] = "statsLocked"]
    /\ ChainAndQueueUntouched

\* the counters are changed; q.stats.mutex.Unlock()
UnlockStats(g) ==
    /\ locking.pc[g] = "statsLocked"
    /\ locking' = [locking EXCEPT !.statsMutex.writer = "", !.pc[g] = "return"]
    /\ ChainAndQueueUntouched

\* the deferred q.mutex.Unlock()
UnlockMutex(g) ==
    /\ locking.pc[g] = "return"
    /\ locking' = [locking EXCEPT !.mutex.writer = "", !.pc[g] = "idle", !.call[g] = ""]
    /\ ChainAndQueueUntouched

\* a goroutine calls Queue.GetStats
CallGetStats(g) ==
    /\ locking.pc[g] = "idle"
    /\ locking' = [locking EXCEPT !.pc[g] = "statsRLock", !.call[g] = "GetStats"]
    /\ ChainAndQueueUntouched

\* q.stats.mutex.RLock()
RLockStats(g) ==
    /\ locking.pc[g] = "statsRLock"
    /\ CanRLock(locking.statsMutex, "statsLock")
    /\ locking' = [locking EXCEPT !.statsMutex.readers = @ \cup {g},
                                  !.pc[g] = "GetPendingCount"]
    /\ ChainAndQueueUntouched

\* q.GetPendingCount(), with q.stats.mutex held for reading: q.mutex.RLock(),
\* len(q.messages), q.mutex.RUnlock()
GetPendingCount(g) ==
    /\ locking.pc[g] = "GetPendingCount"
    /\ CanRLock(locking.mutex, "Lock")
    /\ locking' = [locking EXCEPT !.pc[g] = "GetProcessingCount"]
    /\ ChainAndQueueUntouched

\* q.GetProcessingCount(), the same way
GetProcessingCount(g) ==
    /\ locking.pc[g] = "GetProcessingCount"
    /\ CanRLock(locking.mutex, "Lock")
    /\ locking' = [locking EXCEPT !.pc[g] = "statsRUnlock"]
    /\ ChainAndQueueUntouched

\* the deferred q.stats.mutex.RUnlock()
RUnlockStats(g) ==
    /\ locking.pc[g] = "statsRUnlock"
    /\ locking' = [locking EXCEPT !.statsMutex.readers = @ \ {g}, !.pc[g] = "idle",
                                  !.call[g] = ""]
    /\ ChainAndQueueUntouched

LockNext ==
    \/ \E g \in Goroutines, call \in QueueCalls : CallQueue(g, call)
    \/ \E g \in Goroutines : LockMutex(g)
    \/ \E g \in Goroutines, found \in BOOLEAN : UnderMutex(g, found)
    \/ \E g \in Goroutines : LockStats(g)
    \/ \E g \in Goroutines : UnlockStats(g)
    \/ \E g \in Goroutines : UnlockMutex(g)
    \/ \E g \in Goroutines : CallGetStats(g)
    \/ \E g \in Goroutines : RLockStats(g)
    \/ \E g \in Goroutines : GetPendingCount(g)
    \/ \E g \in Goroutines : GetProcessingCount(g)
    \/ \E g \in Goroutines : RUnlockStats(g)

LockSpec == Init /\ [][LockNext]_vars

\* ---------------------------------------------------------------- C36 ---
\* a goroutine holds q.stats.mutex and waits for q.mutex
HoldsStatsWantsMutex(g) ==
    /\ g \in locking.statsMutex.readers
    /\ locking.pc[g] \in {"GetPendingCount", "GetProcessingCount"}
    /\ locking.mutex.writer # ""
\* a goroutine holds q.mutex and waits for q.stats.mutex
HoldsMutexWantsStats(g) ==
    /\ locking.mutex.writer = g
    /\ locking.pc[g] = "statsLock"
    /\ locking.statsMutex.readers # {}

\* C36: GetStats runs beside Enqueue, Dequeue, MarkProcessed and MarkFailed
\* without deadlock: never does one goroutine hold the lock of the
\* statistics and wait for the lock of the queue while another holds the
\* lock of the queue and waits for the lock of the statistics.
C36_NoLockOrderDeadlock ==
    ~ \E g1, g2 \in Goroutines : HoldsStatsWantsMutex(g1) /\ HoldsMutexWantsStats(g2)

\* ------------------------------------------------- calls of the Pool ---
\* close(p.stopCh) of a closed channel has panicked: the process is gone
ClosePanic == "close of closed channel"
PoolAlive == pool.last.err # ClosePanic

\* Connection.Close on every connection of ids
Closed(made, ids) ==
    [id \in DOMAIN made |-> IF id \in ids THEN [made[id] EXCEPT !.IsActive = FALSE]
                                         ELSE made[id]]

\* Pool.Start: one goroutine for preCreateConnections, which asks for
\* min(3, MaxConnections/2) connections, a new ticker and one goroutine for
\* healthCheckTask
PoolStart ==
    /\ PoolAlive
    /\ IF pool.isRunning
         THEN pool' = [pool EXCEPT !.last = PoolReturned("Start", "AlreadyRunning")]
         ELSE pool' = [pool EXCEPT
                         !.isRunning = TRUE,
                         !.creating = @ + min(3, MaxConnections \div 2),
                         !.healthTicker = "running",
                         !.healthTasks = @ + 1,
                         !.last = PoolReturned("Start", "")]
    /\ PoolOnly

\* Pool.Stop
PoolStop ==
    /\ PoolAlive
    /\ IF ~pool.isRunning
         THEN pool' = [pool EXCEPT !.last = PoolReturned("Stop", "")]
       ELSE IF pool.stopCh = "closed"
         THEN pool' = [pool EXCEPT !.isRunning = FALSE,
                                   !.last = PoolReturned("Stop", ClosePanic)]
       ELSE pool' = [pool EXCEPT
                       !.isRunning = FALSE,
                       !.stopCh = "closed",
                       !.healthTicker = "stopped",
                       !.made = Closed(pool.made, pool.connections),
                       !.available = <<>>,
                       !.last = PoolReturned("Stop", "")]
    /\ PoolOnly

\* healthCheckTask: the case <-p.stopCh of its select
HealthCheckReturns ==
    /\ PoolAlive
    /\ pool.healthTasks > 0
    /\ pool.stopCh = "closed"
    /\ pool' = [pool EXCEPT !.healthTasks = @ - 1]
    /\ PoolOnly

\* healthCheckTask: the case <-p.healthTicker.C of its select, which runs
\* performHealthCheck; gone are the connections whose peer has gone or
\* that have been idle for too long
performHealthCheck(gone) ==
    /\ PoolAlive
    /\ pool.healthTasks > 0
    /\ pool.healthTicker = "running"
    /\ gone \subseteq pool.connections
    /\ LET unhealthy == {id \in pool.connections :
                            ~pool.made[id].IsActive \/ id \in gone}
       IN pool' = [pool EXCEPT
                     !.made = Closed(pool.made, unhealthy),
                     !.connections = @ \ unhealthy]
    /\ PoolOnly

\* Pool.GetConnection up to the dial of createConnection. pick is the case
\* the select takes, healthy the answer of IsHealthy for a live connection.
GetConnection(c, pick, healthy) ==
    /\ PoolAlive
    /\ pool.pc[c] = "idle"
    /\ pool.held[c] = NoConnection
    /\ pick = "available" => pool.available # <<>>
    /\ pick = "default" => pool.available = <<>>
    /\ IF ~pool.isRunning
         THEN pool' = [pool EXCEPT !.last = PoolReturned("GetConnection", "NotRunning")]
       ELSE IF pick = "done"
         THEN pool' = [pool EXCEPT !.last = PoolReturned("GetConnection", "ContextDone")]
       ELSE IF pick = "available" /\ pool.made[Head(pool.available)].IsActive /\ healthy
         THEN pool' = [pool EXCEPT
                         !.available = Tail(@),
                         !.made[Head(pool.available)].IsBusy = TRUE,
                         !.held[c] = Head(pool.available),
                         !.last = PoolReturned("GetConnection", "")]
       ELSE LET conn == IF pick = "available" THEN {Head(pool.available)} ELSE {}
                connections == pool.connections \ conn
                rest == IF pick = "available" THEN Tail(pool.available) ELSE pool.available
            IN IF Cardinality(connections) >= MaxConnections
                 THEN pool' = [pool EXCEPT
                                 !.available = rest,
                                 !.made = Closed(pool.made, conn),
                                 !.connections = connections,
                                 !.last = PoolReturned("GetConnection", "LimitReached")]
                 ELSE pool' = [pool EXCEPT
                                 !.available = rest,
                                 !.made = Closed(pool.made, conn),
                                 !.connections = connections,
                                 !.pc[c] = "dialling"]
    /\ PoolOnly

\* createConnection from its dial on: a connection that is made is added
\* to p.connections whatever their number is by now
Dial(c, ok) ==
    /\ PoolAlive
    /\ pool.pc[c] = "dialling"
    /\ ok => pool.dialled < MaxDials
    /\ IF ok
         THEN LET id == pool.dialled + 1
              IN pool' = [pool EXCEPT
                            !.made = [i \in DOMAIN pool.made \cup {id} |->
                                         IF i = id THEN NewConnection ELSE pool.made[i]],
                            !.connections = @ \cup {id},
                            !.dialled = id,
                            !.held[c] = id,
                            !.pc[c] = "idle",
                            !.last = PoolReturned("GetConnection", "")]
         ELSE pool' = [pool EXCEPT
                         !.pc[c] = "idle",
                         !.last = PoolReturned("GetConnection", "DialFailed")]
    /\ PoolOnly

\* Pool.ReturnConnection of the connection id
Returning(p, id, healthy) ==
    IF p.made[id].IsActive /\ healthy /\ Len(p.available) < MaxConnections
      THEN [p EXCEPT !.made[id].IsBusy = FALSE,
                     !.available = Append(@, id)]
      ELSE [p EXCEPT !.made[id].IsBusy = FALSE,
                     !.made[id].IsActive = FALSE,
                     !.connections = @ \ {id}]

ReturnConnection(c, healthy) ==
    /\ PoolAlive
    /\ pool.held[c] # NoConnection
    /\ pool' = [Returning(pool, pool.held[c], healthy) EXCEPT !.held[c] = NoConnection]
    /\ PoolOnly

\* preCreateConnections: createConnection up to its dial
PreCreate ==
    /\ PoolAlive
    /\ pool.creating > 0
    /\ IF Cardinality(pool.connections) >= MaxConnections
         THEN pool' = [pool EXCEPT !.creating = @ - 1]
         ELSE pool' = [pool EXCEPT !.creating = @ - 1, !.dialling = @ + 1]
    /\ PoolOnly

\* preCreateConnections: the dial, and ReturnConnection of what it made
PreDial(ok, healthy) ==
    /\ PoolAlive
    /\ pool.dialling > 0
    /\ ok => pool.dialled < MaxDials
    /\ IF ok
         THEN LET id == pool.dialled + 1
                  added == [pool EXCEPT
                              !.made = [i \in DOMAIN pool.made \cup {id} |->
                                           IF i = id THEN NewConnection ELSE pool.made[i]],
                              !.connections = @ \cup {id},
                              !.dialled = id,
                              !.dialling = @ - 1]
              IN pool' = Returning(added, id, healthy)
         ELSE pool' = [pool EXCEPT !.dialling = @ - 1]
    /\ PoolOnly

PoolNext ==
    \/ PoolStart
    \/ PoolStop
    \/ HealthCheckReturns
    \/ \E gone \in SUBSET (1..MaxDials) : performHealthCheck(gone)
    \/ \E c \in Callers, pick \in {"available", "done", "default"}, healthy \in BOOLEAN :
          GetConnection(c, pick, healthy)
    \/ \E c \in Callers, ok \in BOOLEAN : Dial(c, ok)
    \/ \E c \in Callers, healthy \in BOOLEAN : ReturnConnection(c, healthy)
    \/ PreCreate
    \/ \E ok \in BOOLEAN, healthy \in BOOLEAN : PreDial(ok, healthy)

PoolSpec == Init /\ [][PoolNext]_vars

\* ---------------------------------------------------------------- C33 ---
\* C33: a pool can be started again after it was stopped: Stop on a running
\* pool returns nil and does not panic, Start on a stopped pool returns nil,
\* Start on a running pool returns an error, and a running pool, whether
\* started for the first or the second time, has its health check running.
C33_PoolRestarts ==
    [][/\ (pool.isRunning /\ ~pool'.isRunning) => pool'.last = PoolReturned("Stop", "")
       /\ (~pool.isRunning /\ pool'.isRunning) => pool'.last = PoolReturned("Start", "")
       /\ (pool.isRunning /\ pool'.last.op = "Start" /\ pool'.last # pool.last) =>
              pool'.last.err # ""
       /\ pool'.isRunning => pool'.healthTasks > 0]_vars

\* ---------------------------------------------------------------- C37 ---
\* C37: the pool never tracks more than MaxConnections connections, however
\* many goroutines call GetConnection at once, and a caller that finds the
\* pool at its limit gets an error and no connection is dialled for it.
C37_AtMostMaxConnections ==
    [][/\ Cardinality(pool'.connections) <= MaxConnections
       /\ \A c \in Callers :
             (pool.pc[c] = "idle" /\ pool'.pc[c] = "dialling") =>
                 Cardinality(pool'.connections) < MaxConnections]_vars

\* ------------------------------------------- calls of the DDoSFilter ---
\* df.connectionCount[ip], 0 for an IP the map does not have
Count(f, ip) == IF ip \in DOMAIN f.connectionCount THEN f.connectionCount[ip] ELSE 0

\* DDoSFilter.ShouldAllow
ShouldAllow(addr) ==
    LET ip == extractIP(addr)
        count == Count(filter, ip) + 1
        counted == [filter EXCEPT
                      !.connectionCount = Put(filter.connectionCount, ip, count),
                      !.lastRequest = Put(filter.lastRequest, ip, JustNow)]
    IN /\ count <= MaxRequests
       /\ IF OverLimit(count, maxConnections)
            THEN filter' = [counted EXCEPT
                   !.suspiciousIPs = Put(filter.suspiciousIPs, ip, JustNow),
                   !.blacklist = IF count > maxConnections * 2
                                   THEN Put(filter.blacklist, ip, JustNow)
                                   ELSE filter.blacklist,
                   !.last = Allowed("ShouldAllow", ip, FALSE)]
            ELSE filter' = [counted EXCEPT !.last = Allowed("ShouldAllow", ip, TRUE)]
       /\ FilterOnly

\* DDoSFilter.CleanupConnections
CleanupConnections ==
    /\ LET keptRequests == {ip \in DOMAIN filter.lastRequest :
                               filter.lastRequest[ip] < CounterExpired}
           keptSuspicions == {ip \in DOMAIN filter.suspiciousIPs :
                                 filter.suspiciousIPs[ip] < SuspicionExpired}
       IN filter' = [filter EXCEPT
            !.connectionCount = [ip \in DOMAIN filter.connectionCount \cap keptRequests |->
                                    filter.connectionCount[ip]],
            !.lastRequest = [ip \in keptRequests |-> filter.lastRequest[ip]],
            !.suspiciousIPs = [ip \in keptSuspicions |-> filter.suspiciousIPs[ip]],
            !.last = Allowed("CleanupConnections", "", TRUE)]
    /\ FilterOnly

\* time passes: every moment the filter has noted lies one step further back
Older(times) == [ip \in DOMAIN times |-> min(times[ip] + 1, SuspicionExpired)]
Elapse ==
    /\ filter' = [filter EXCEPT
                    !.lastRequest = Older(filter.lastRequest),
                    !.suspiciousIPs = Older(filter.suspiciousIPs),
                    !.blacklist = Older(filter.blacklist),
                    !.last = Allowed("Elapse", "", TRUE)]
    /\ FilterOnly

FilterNext ==
    \/ \E addr \in Addresses : ShouldAllow(addr)
    \/ CleanupConnections
    \/ Elapse

FilterSpec == Init /\ [][FilterNext]_vars

Evictable(peers) ==
    {a \in DOMAIN peers :
        /\ peers[a].Status # StatusConnected
        /\ \A b \in DOMAIN peers :
              peers[b].Status # StatusConnected => peers[a].Score <= peers[b].Score}

\* Manager.AddPeer of a new peer with the address
AddPeer(address) ==
    /\ IF address \in DOMAIN manager.peers
         THEN manager' = [manager EXCEPT !.peers[address].LastSeen = JustNow,
                                         !.last = Called("AddPeer", address)]
       ELSE IF Cardinality(DOMAIN manager.peers) >= maxPeers
                /\ Evictable(manager.peers) # {}
         THEN \E lowestPeer \in Evictable(manager.peers) :
                 manager' = [manager EXCEPT
                               !.peers = Put(Delete(manager.peers, lowestPeer),
                                             address, NewPeer),
                               !.last = Called("AddPeer", address)]
       ELSE manager' = [manager EXCEPT !.peers = Put(manager.peers, address, NewPeer),
                                       !.last = Called("AddPeer", address)]
    /\ ManagerOnly

\* Manager.RemovePeer
RemovePeer(address) ==
    /\ manager' = [manager EXCEPT !.peers = Delete(manager.peers, address),
                                  !.last = Called("RemovePeer", address)]
    /\ ManagerOnly

\* Peer.UpdateStatus on a peer of the manager
UpdateStatus(address, status) ==
    /\ address \in DOMAIN manager.peers
    /\ status = StatusConnected => manager.peers[address].Score + 10 <= MaxScore
    /\ status = StatusFailed =>
          manager.peers[address].Score - 5 >= NewPeer.Score - 5 * MaxFailures
    /\ LET p == manager.peers[address]
           score == IF status = StatusConnected THEN p.Score + 10
                    ELSE IF status = StatusFailed
                      THEN (IF p.Score - 5 < 0 THEN 0 ELSE p.Score - 5)
                    ELSE p.Score
       IN manager' = [manager EXCEPT
                        !.peers[address] = [Status |-> status, Score |-> score,
                                            LastSeen |-> JustNow],
                        !.last = Called("UpdateStatus", address)]
    /\ ManagerOnly

\* performCleanup: the peers not seen for 10 minutes go, unless connected
performCleanup ==
    /\ LET toRemove == {a \in DOMAIN manager.peers :
                           /\ manager.peers[a].LastSeen >= NotAlive
                           /\ manager.peers[a].Status # StatusConnected}
       IN manager' = [manager EXCEPT
                        !.peers = [a \in DOMAIN manager.peers \ toRemove |-> manager.peers[a]],
                        !.last = Called("performCleanup", "")]
    /\ ManagerOnly

\* more than 10 minutes pass
PeersAge ==
    /\ manager' = [manager EXCEPT
                     !.peers = [a \in DOMAIN manager.peers |->
                                   [manager.peers[a] EXCEPT !.LastSeen = NotAlive]],
                     !.last = Called("PeersAge", "")]
    /\ ManagerOnly

ManagerNext ==
    \/ \E address \in PeerAddresses : AddPeer(address)
    \/ \E address \in PeerAddresses : RemovePeer(address)
    \/ \E address \in PeerAddresses, status \in PeerStatuses : UpdateStatus(address, status)
    \/ performCleanup
    \/ PeersAge

ManagerSpec == Init /\ [][ManagerNext]_vars

\* ---------------------------------------------------------------- C38 ---
\* the peers of the lowest score
LowestScored(peers) ==
    {a \in DOMAIN peers : \A b \in DOMAIN peers : peers[a].Score <= peers[b].Score}

\* C38: the manager never holds more than max_peers peers; AddPeer of a new
\* address to a full manager puts it in the place of a peer of the lowest
\* score, and AddPeer of a known address changes nothing but the time the
\* peer was last seen.
C38_AtMostMaxPeers ==
    [][/\ Cardinality(DOMAIN manager'.peers) <= maxPeers
       /\ manager'.last.op = "AddPeer" =>
            LET address == manager'.last.address
            IN IF address \in DOMAIN manager.peers
                 THEN manager'.peers = [manager.peers EXCEPT ![address].LastSeen = JustNow]
               ELSE IF Cardinality(DOMAIN manager.peers) >= maxPeers
                 THEN \E lowest \in LowestScored(manager.peers) :
                         manager'.peers = Put(Delete(manager.peers, lowest), address, NewPeer)
               ELSE manager'.peers = Put(manager.peers, address, NewPeer)]_vars

\* ------------------------------------------------- the message Handler --
\* Queue.Enqueue, Dequeue, MarkProcessed, MarkFailed and Cleanup on a queue
\* q of the handler: what the queue becomes and what the call returns
Enqueued(q, message) ==
    IF Len(q.messages) >= q.maxSize
      THEN [queue |-> q, err |-> "ErrQueueFull"]
    ELSE IF message.ID \in DOMAIN q.pending
      THEN [queue |-> q, err |-> "ErrMessageExists"]
    ELSE [queue |-> [q EXCEPT !.messages = HeapPush(q.messages, message),
                              !.pending = Put(q.pending, message.ID, message),
                              !.stats.PendingMessages = @ + 1],
          err |-> ""]

Dequeued(q) ==
    IF Len(q.messages) = 0 THEN [queue |-> q, message |-> NilMessage]
    ELSE LET popped == HeapPop(q.messages)
         IN [queue |-> [q EXCEPT
                          !.messages = popped.messages,
                          !.pending = Delete(q.pending, popped.message.ID),
                          !.processing = Put(q.processing, popped.message.ID,
                                             [popped.message EXCEPT !.Handed = @ + 1]),
                          !.stats.PendingMessages = @ - 1,
                          !.stats.ProcessingMessages = @ + 1],
             message |-> popped.message]

MarkedProcessed(q, messageID) ==
    IF messageID \notin DOMAIN q.processing THEN q
    ELSE [q EXCEPT !.processing = Delete(q.processing, messageID),
                   !.stats.ProcessingMessages = @ - 1]

MarkedFailed(q, messageID, expired) ==
    IF messageID \notin DOMAIN q.processing THEN q
    ELSE LET message == [q.processing[messageID] EXCEPT !.Retries = @ + 1]
         IN IF CanRetry(message, expired)
              THEN [q EXCEPT !.processing = Delete(q.processing, messageID),
                             !.messages = HeapPush(q.messages, message),
                             !.pending = Put(q.pending, message.ID, message),
                             !.stats.PendingMessages = @ + 1,
                             !.stats.ProcessingMessages = @ - 1]
              ELSE [q EXCEPT !.processing = Delete(q.processing, messageID),
                             !.failed = Put(q.failed, message.ID, message),
                             !.stats.FailedMessages = @ + 1,
                             !.stats.ProcessingMessages = @ - 1]

CleanedUp(q, expired) ==
    LET cleaned == DOMAIN q.failed \cap expired
    IN [q EXCEPT !.failed = [id \in DOMAIN q.failed \ cleaned |-> q.failed[id]],
                 !.stats.FailedMessages = @ - Cardinality(cleaned)]

\* close(h.stopCh) on a closed channel
HandlerAlive == handler.last.err # ClosePanic

\* one goroutine more, or one fewer, in the state g
Spawn(goroutines, g) == goroutines (+) SetToBag({g})
Gone(goroutines, g) == goroutines (-) SetToBag({g})
Moved(goroutines, g, to) == Spawn(Gone(goroutines, g), to)
RECURSIVE SpawnN(_, _, _)
SpawnN(goroutines, g, n) ==
    IF n = 0 THEN goroutines ELSE SpawnN(Spawn(goroutines, g), g, n - 1)
InState(at) == {g \in BagToSet(handler.workers) : g.at = at}

\* Handler.Start: Workers goroutines run worker, one runs cleanupTask
HandlerStart ==
    /\ HandlerAlive
    /\ IF handler.isRunning
         THEN handler' = [handler EXCEPT !.last = Answered("Start", "AlreadyRunning", "")]
         ELSE handler' = [handler EXCEPT
                !.isRunning = TRUE,
                !.workers = SpawnN(@, AtSelect, Workers),
                !.cleanupTasks = @ + 1,
                !.last = Answered("Start", "", "")]
    /\ HandlerOnly

\* Handler.Stop
HandlerStop ==
    /\ HandlerAlive
    /\ IF ~handler.isRunning
         THEN handler' = [handler EXCEPT !.last = Answered("Stop", "", "")]
       ELSE IF handler.stopCh = "closed"
         THEN handler' = [handler EXCEPT !.isRunning = FALSE,
                                         !.last = Answered("Stop", ClosePanic, "")]
       ELSE handler' = [handler EXCEPT !.isRunning = FALSE,
                                       !.stopCh = "closed",
                                       !.last = Answered("Stop", "", "")]
    /\ HandlerOnly

\* Handler.RegisterHandler. What the registered function returns is an
\* input of the step that waits for it.
RegisterHandler(messageType) ==
    /\ HandlerAlive
    /\ handler' = [handler EXCEPT
           !.handlers = @ \cup {messageType},
           !.queues = IF messageType \in DOMAIN handler.queues THEN @
                      ELSE [t \in DOMAIN handler.queues \cup {messageType} |->
                              IF t = messageType THEN NewQueue(1000)
                              ELSE handler.queues[t]],
           !.last = Answered("RegisterHandler", "", "")]
    /\ HandlerOnly

\* Handler.Submit
AllSubmitted == handler.submitted["m1"] + handler.submitted["m2"]
Submit(message) ==
    /\ HandlerAlive
    /\ AllSubmitted < MaxSubmits
    /\ IF ~handler.isRunning
         THEN handler' = [handler EXCEPT !.last = Answered("Submit", "NotRunning", message.ID)]
       ELSE IF message.Type \notin DOMAIN handler.queues
         THEN handler' = [handler EXCEPT !.last = Answered("Submit", "Unregistered", message.ID)]
       ELSE LET e == Enqueued(handler.queues[message.Type], message)
            IN handler' = [handler EXCEPT
                   !.queues[message.Type] = e.queue,
                   !.submitted[message.ID] = IF e.err = "" THEN @ + 1 ELSE @,
                   !.last = Answered("Submit", e.err, message.ID)]
    /\ HandlerOnly

\* worker and cleanupTask: the case <-h.stopCh of their select
WorkerReturns ==
    /\ HandlerAlive
    /\ BagIn(AtSelect, handler.workers)
    /\ handler.stopCh = "closed"
    /\ handler' = [handler EXCEPT !.workers = Gone(@, AtSelect)]
    /\ HandlerOnly

CleanupTaskReturns ==
    /\ HandlerAlive
    /\ handler.cleanupTasks > 0
    /\ handler.stopCh = "closed"
    /\ handler' = [handler EXCEPT !.cleanupTasks = @ - 1]
    /\ HandlerOnly

\* cleanupTask: the case <-h.cleanupTicker.C, performCleanup
HandlerCleanup(expired) ==
    /\ HandlerAlive
    /\ handler.cleanupTasks > 0
    /\ handler.isRunning
    /\ handler' = [handler EXCEPT
           !.queues = [t \in DOMAIN handler.queues |-> CleanedUp(handler.queues[t], expired)]]
    /\ HandlerOnly

\* worker: the case <-ticker.C of its select, which is taken only while
\* the closed channel does not make the other case ready first;
\* processMessages copies h.queues
Tick ==
    /\ HandlerAlive
    /\ BagIn(AtSelect, handler.workers)
    /\ handler.stopCh = "open"
    /\ handler' = [handler EXCEPT
           !.workers = Moved(@, AtSelect, InProcessMessages(DOMAIN handler.queues))]
    /\ HandlerOnly

\* processMessages: the loop is over
Processed(g) ==
    /\ HandlerAlive
    /\ g.queues = {}
    /\ handler' = [handler EXCEPT !.workers = Moved(@, g, AtSelect)]
    /\ HandlerOnly

\* processMessages: the next queue of the copy, in the order the map gives,
\* Dequeue, and the call of the handler function in handleMessage
NextQueue(g, messageType) ==
    /\ HandlerAlive
    /\ messageType \in g.queues
    /\ LET d == Dequeued(handler.queues[messageType])
           queues == g.queues \ {messageType}
       IN IF d.message = NilMessage
            THEN handler' = [handler EXCEPT
                   !.workers = Moved(@, g, InProcessMessages(queues))]
            ELSE handler' = [handler EXCEPT
                   !.queues[messageType] = d.queue,
                   !.passed[d.message.ID] = @ + 1,
                   !.workers = Moved(@, g, InHandleMessage(queues, d.message))]
    /\ HandlerOnly

\* handleMessage from its select on: the function returned nil, returned
\* an error, or the timeout of the message came first
HandlerOutcomes == {"nil", "error", "timeout"}
handleMessage(g, outcome, expired) ==
    /\ HandlerAlive
    /\ outcome = "nil" => ~expired
    /\ LET message == g.message
           workers == Moved(handler.workers, g, InProcessMessages(g.queues))
       IN IF outcome = "nil"
            THEN handler' = [handler EXCEPT
                   !.queues[message.Type] = MarkedProcessed(@, message.ID),
                   !.stats.TotalProcessed = @ + 1,
                   !.processed[message.ID] = @ + 1,
                   !.workers = workers]
            ELSE handler' = [handler EXCEPT
                   !.queues[message.Type] = MarkedFailed(@, message.ID, expired),
                   !.stats.TotalFailed = @ + 1,
                   !.failures[message.ID] = @ + 1,
                   !.workers = workers]
    /\ HandlerOnly

\* the steps of the goroutines the handler has started
WorkerSteps ==
    \/ WorkerReturns
    \/ Tick
    \/ \E g \in InState("processMessages") : Processed(g)
    \/ \E g \in InState("processMessages"), messageType \in MessageTypes :
         NextQueue(g, messageType)
    \/ \E g \in InState("handleMessage"), outcome \in HandlerOutcomes, expired \in BOOLEAN :
         handleMessage(g, outcome, expired)
    \/ CleanupTaskReturns

HandlerNext ==
    \/ HandlerStart
    \/ HandlerStop
    \/ \E messageType \in MessageTypes : RegisterHandler(messageType)
    \/ \E message \in Submitted : Submit(message)
    \/ \E expired \in SUBSET SubmittedIDs : HandlerCleanup(expired)
    \/ WorkerSteps

HandlerSpec == Init /\ [][HandlerNext]_vars


\* the scheduler lets every goroutine run: one that waits at its select
\* gets its tick or sees the closed channel, one in processMessages goes
\* on, and a handler function returns or the timeout of its message ends
\* the wait
GoroutineReturns == WorkerReturns \/ CleanupTaskReturns
Looping ==
    \/ \E g \in InState("processMessages") : Processed(g)
    \/ \E g \in InState("processMessages"), messageType \in MessageTypes :
         NextQueue(g, messageType)
Handling ==
    \E g \in InState("handleMessage"), outcome \in HandlerOutcomes, expired \in BOOLEAN :
       handleMessage(g, outcome, expired)
HandlerFairSpec ==
    /\ HandlerSpec
    /\ WF_vars(GoroutineReturns)
    /\ WF_vars(Tick)
    /\ WF_vars(Looping)
    /\ WF_vars(Handling)

\* ---------------------------------------------------------------- C32 ---
\* a step of Submit, and the type of the message it was called with
SubmitStep ==
    /\ handler'.last.op = "Submit"
    /\ handler'.last # handler.last \/ handler'.submitted # handler.submitted
TypeOf(id) == (CHOOSE message \in Submitted : message.ID = id).Type

\* no function has failed on the message id, and it was passed to one no
\* more often than it was submitted
HandledAtMostOnce(id) ==
    handler.failures[id] = 0 =>
        /\ handler.passed[id] <= handler.submitted[id]
        /\ handler.processed[id] <= handler.passed[id]

\* the n-th accepted message of the ID id has been counted, unless a
\* function failed on it
Counted(id, n) == handler.processed[id] >= n \/ handler.failures[id] > 0

\* C32: a message submitted to a running handler for a registered type,
\* whose handler function returns nil in time, is eventually passed to the
\* function once and counted once in TotalProcessed, as long as the
\* handler runs; Submit on a handler that is not running, or for a type
\* that is not registered, returns an error and enqueues nothing.
C32_SubmittedIsHandledOnce ==
    /\ [](\A id \in SubmittedIDs : HandledAtMostOnce(id))
    /\ [][(SubmitStep /\ (~handler.isRunning
                          \/ TypeOf(handler'.last.id) \notin DOMAIN handler.queues))
             => (handler'.last.err # "" /\ handler'.queues = handler.queues)]_vars
    /\ \A id \in SubmittedIDs, n \in 1 .. MaxSubmits :
         (handler.isRunning /\ handler.submitted[id] >= n)
            ~> (Counted(id, n) \/ ~handler.isRunning)

\* the same of a handler whose stopCh has not been closed
HandledUntilStopped ==
    /\ [](\A id \in SubmittedIDs : HandledAtMostOnce(id))
    /\ [][(SubmitStep /\ (~handler.isRunning
                          \/ TypeOf(handler'.last.id) \notin DOMAIN handler.queues))
             => (handler'.last.err # "" /\ handler'.queues = handler.queues)]_vars
    /\ \A id \in SubmittedIDs, n \in 1 .. MaxSubmits :
         (handler.isRunning /\ handler.submitted[id] >= n)
            ~> (Counted(id, n) \/ handler.stopCh = "closed")

\* ------------------------------------------------- the block download --
\* what a step of the download leaves alone
DownloadOnly ==
    UNCHANGED <<mining, reindexing, merkle, queue, locking, pool, filter, manager, handler>>

\* the central node has the chain of this node when the two first meet
PeerKnown == server.peer.l # EmptyHash
PeerJoins ==
    /\ ChainExists
    /\ ~PeerKnown
    /\ server' = [server EXCEPT !.peer = [blocks |-> blocks, l |-> l]]
    /\ ServerOnly

\* the central node mines a transfer on its tip, as MineBlockUnified does
\* without a reward
PeerMined(from, to, amount) ==
    LET peerState == Reindex(server.peer.blocks, server.peer.l)
    IN UNION {
         LET found == FindSpendableOutputs(peerState, order, PubKeyHash(from), amount)
         IN IF found.accumulated < amount \/ Len(found.unspentOutputs) # 1 THEN {}
            ELSE { NewBlock(<<NewUTXOTransaction(from, to, amount, found,
                                                 <<found.unspentOutputs[1].txID>>).tx>>,
                            server.peer.l,
                            GetBestHeight(server.peer.blocks, server.peer.l) + 1) }
         : order \in SeqPerms(KeysLockedTo(peerState, PubKeyHash(from))) }

PeerMines(from, to, amount) ==
    /\ PeerKnown
    /\ server.versions = 0
    /\ Cardinality(DOMAIN server.peer.blocks) < MaxBlocks
    /\ \E mined \in PeerMined(from, to, amount) :
         LET w == PutBlock(server.peer.blocks, server.peer.l, mined)
         IN server' = [server EXCEPT !.peer = [blocks |-> w.blocks, l |-> w.l]]
    /\ ServerOnly

\* sendVersion of the central node, once, in answer to the version this
\* node sends when its server starts
sendVersion ==
    /\ PeerKnown
    /\ server.versions = 0
    /\ server' = [server EXCEPT
           !.versions = 1,
           !.wire = @ \cup {Version(nodeAddress, centralNode,
                                    GetBestHeight(server.peer.blocks, server.peer.l))}]
    /\ ServerOnly

\* Blockchain.GetBlockHashes: the hashes from the tip back to the genesis
\* block
GetBlockHashes(bks, last) ==
    LET chain == IterateFrom(bks, last)
    IN [i \in 1 .. Len(chain) |-> chain[i].Hash]

nodeIsKnown(knownNodes, addr) == \E i \in 1 .. Len(knownNodes) : knownNodes[i] = addr

\* the message m has come to the node it was sent to
Arrived(m, command, to) == m \in server.wire /\ m.command = command /\ m.to = to

\* handleVersion of this node
handleVersion(m) ==
    /\ Arrived(m, "version", nodeAddress)
    /\ ~server.panicked
    /\ LET myBestHeight == GetBestHeight(blocks, l)
           foreignerBestHeight == m.BestHeight
           sent == IF myBestHeight < foreignerBestHeight
                     THEN {GetBlocks(m.AddrFrom, nodeAddress)}
                   ELSE IF myBestHeight > foreignerBestHeight
                     THEN {Version(m.AddrFrom, nodeAddress, myBestHeight)}
                   ELSE {}
       IN server' = [server EXCEPT
              !.wire = (@ \ {m}) \cup sent,
              !.KnownNodes = IF nodeIsKnown(@, m.AddrFrom) THEN @
                             ELSE Append(@, m.AddrFrom)]
    /\ ServerOnly

\* handleGetBlocks of the central node
handleGetBlocks(m) ==
    /\ Arrived(m, "getblocks", centralNode)
    /\ server' = [server EXCEPT
           !.wire = (@ \ {m}) \cup
                    {Inv(m.AddrFrom, centralNode,
                         GetBlockHashes(server.peer.blocks, server.peer.l))}]
    /\ ServerOnly

\* handleInv of this node for an inv of blocks: an inv without an item ends
\* in an index out of range
handleInv(m) ==
    /\ Arrived(m, "inv", nodeAddress)
    /\ ~server.panicked
    /\ IF m.Items = <<>>
         THEN server' = [server EXCEPT !.wire = @ \ {m}, !.blocksInTransit = m.Items,
                                   !.announced = m.Items, !.panicked = TRUE]
         ELSE LET blockHash == m.Items[1]
                  differs(h) == h # blockHash
              IN server' = [server EXCEPT
                     !.wire = (@ \ {m}) \cup {GetData(m.AddrFrom, nodeAddress, blockHash)},
                     !.blocksInTransit = SelectSeq(m.Items, differs),
                     !.announced = m.Items,
                     !.requested = Append(@, blockHash)]
    /\ ServerOnly

\* Blockchain.GetBlock and handleGetData of the central node for a block
handleGetData(m) ==
    /\ Arrived(m, "getdata", centralNode)
    /\ IF m.ID \notin DOMAIN server.peer.blocks
         THEN server' = [server EXCEPT !.wire = @ \ {m}]
         ELSE server' = [server EXCEPT
                !.wire = (@ \ {m}) \cup
                         {BlockData(m.AddrFrom, centralNode, server.peer.blocks[m.ID])}]
    /\ ServerOnly

\* handleBlock of this node: AddBlock, its error dropped, then getdata for
\* the next block in transit, or Reindex when there is none; a panic inside
\* AddBlock ends the process
handleBlockData(m) ==
    /\ Arrived(m, "block", nodeAddress)
    /\ ~server.panicked
    /\ LET block == m.Block[1]
           a == AddBlock(blocks, l, chainstate, block)
       IN /\ blocks' = a.blocks
          /\ l' = a.l
          /\ tip' = a.l
          /\ lastOp' = ReceivedOp("handleBlock", a.err, block)
          /\ IF a.err = "UpdatePanic"
               THEN /\ chainstate' = a.chainstate
                    /\ server' = [server EXCEPT !.wire = @ \ {m},
                                            !.delivered = Append(@, block.Hash),
                                            !.panicked = TRUE]
             ELSE IF Len(server.blocksInTransit) > 0
               THEN /\ chainstate' = a.chainstate
                    /\ server' = [server EXCEPT
                           !.wire = (@ \ {m}) \cup
                                    {GetData(m.AddrFrom, nodeAddress, server.blocksInTransit[1])},
                           !.blocksInTransit = Tail(@),
                           !.requested = Append(@, server.blocksInTransit[1]),
                           !.delivered = Append(@, block.Hash)]
             ELSE /\ chainstate' = Reindex(a.blocks, a.l)
                  /\ server' = [server EXCEPT !.wire = @ \ {m},
                                          !.delivered = Append(@, block.Hash)]
    /\ DownloadOnly

\* the messages that may be under way
OnWire == server.wire

\* this node creates its chain and mines, the central node takes the chain
\* over and mines on, then the two exchange version, getblocks, inv,
\* getdata and block
SyncNext ==
    \/ \E address \in Addrs : ~PeerKnown /\ CreateBlockchain(address)
    \/ \E from \in Addrs, to \in Addrs, amount \in Amounts :
         ~PeerKnown /\ NetRoom /\ SendReindex(from, to, amount, NoMiner)
    \/ PeerJoins
    \/ \E from \in Addrs, to \in Addrs, amount \in Amounts : PeerMines(from, to, amount)
    \/ sendVersion
    \/ \E m \in OnWire : handleVersion(m)
    \/ \E m \in OnWire : handleGetBlocks(m)
    \/ \E m \in OnWire : handleInv(m)
    \/ \E m \in OnWire : handleGetData(m)
    \/ \E m \in OnWire : handleBlockData(m)

SyncSpec == Init /\ [][SyncNext]_vars

\* ---------------------------------------------------------------- C39 ---
\* how often the hash h occurs in the sequence hashes
Times(hashes, h) == Cardinality({i \in 1 .. Len(hashes) : hashes[i] = h})
Hashes(hashes) == {hashes[i] : i \in 1 .. Len(hashes)}

\* the last block of the inv has come
LastArrived ==
    /\ server.announced # <<>>
    /\ Hashes(server.announced) \subseteq Hashes(server.delivered)

\* C39: when this node is behind the central node and downloads its blocks,
\* every hash of the inv is requested at most once, and once when the last
\* block has come; every block that was delivered is in the chain of this
\* node: it is stored and the tip reaches it; and when the last block has
\* come the best height is that of the central node and the chainstate is
\* what Reindex gives for the new tip.
C39_DownloadCatchesUp ==
    /\ \A h \in Hashes(server.announced) : Times(server.requested, h) <= 1
    /\ \A h \in Hashes(server.delivered) :
         /\ h \in DOMAIN blocks
         /\ h \in Hashes(GetBlockHashes(blocks, l))
    /\ LastArrived =>
         /\ \A h \in Hashes(server.announced) : Times(server.requested, h) = 1
         /\ GetBestHeight(blocks, l) = GetBestHeight(server.peer.blocks, server.peer.l)
         /\ chainstate = Reindex(blocks, l)

\* the download of one block and that of two
OneBehind ==
    /\ LastArrived
    /\ Cardinality(DOMAIN server.peer.blocks) = 2
    /\ GetBestHeight(blocks, l) = 1
TwoBehind ==
    /\ LastArrived
    /\ Cardinality(DOMAIN server.peer.blocks) = 3
    /\ Len(server.announced) = 3

\* ------------------------------------------- the connection goroutines --
\* the accesses a handler makes to KnownNodes, blocksInTransit and mempool,
\* in the order of its code; which of the sequences a call runs through
\* depends on its payload and on what it finds
KR == Access("KnownNodes", "read")
KW == Access("KnownNodes", "write")
TR == Access("blocksInTransit", "read")
TW == Access("blocksInTransit", "write")
MR == Access("mempool", "read")
MW == Access("mempool", "write")
AccessesOf(command) ==
    CASE command = "version" -> { <<KR>>, <<KR, KW>> }
      [] command = "addr" -> { <<KW>> }
      [] command = "block" -> { <<TR>>, <<TR, TR, TW>> }
      [] command = "inv" -> { <<TW, TR, TW>>, <<MR>> }
      [] command = "getdata" -> { <<MR>> }
      [] command = "tx" -> { <<MW, KR>>, <<MW, KR, MR>>, <<MW, KR, MR, MW, KR, MR>> }

\* StartServer: go handleConnection(conn, bc) for an accepted connection,
\* and the switch of handleConnection
Accept(c, command, accesses) ==
    /\ server.conn[c] = Idle
    /\ accesses \in AccessesOf(command)
    /\ server' = [server EXCEPT
           !.conn[c] = [command |-> command, accesses |-> accesses, inside |-> FALSE]]
    /\ ServerOnly

\* the handler comes to its next access: no handler takes a lock, so
\* nothing makes it wait
BeginAccess(c) ==
    /\ server.conn[c].accesses # <<>>
    /\ ~server.conn[c].inside
    /\ server' = [server EXCEPT !.conn[c].inside = TRUE]
    /\ ServerOnly

\* the access is over; after the last one the handler returns and
\* handleConnection closes the connection
EndAccess(c) ==
    /\ server.conn[c].inside
    /\ server' = [server EXCEPT
           !.conn[c] = IF Len(@.accesses) = 1 THEN Idle
                       ELSE [@ EXCEPT !.accesses = Tail(@), !.inside = FALSE]]
    /\ ServerOnly

ConnectionNext ==
    \/ \E c \in Connections, command \in Commands :
         \E accesses \in AccessesOf(command) : Accept(c, command, accesses)
    \/ \E c \in Connections : BeginAccess(c)
    \/ \E c \in Connections : EndAccess(c)

ConnectionSpec == Init /\ [][ConnectionNext]_vars

\* ---------------------------------------------------------------- C40 ---
\* what the goroutine of the connection c is reading or writing
Touches(c) ==
    IF server.conn[c].inside THEN Head(server.conn[c].accesses) ELSE NoAccess

\* C40: mempool, blocksInTransit and KnownNodes are never read or written
\* by the handlers of two connections at the same time.
C40_HandlersExclusive ==
    \A c1 \in Connections, c2 \in Connections :
        (c1 # c2 /\ server.conn[c1].inside /\ server.conn[c2].inside)
            => Touches(c1).variable # Touches(c2).variable

\* two tx handlers writing the mempool at once
TwoWriters ==
    /\ server.conn["conn1"].command = "tx"
    /\ server.conn["conn2"].command = "tx"
    /\ Touches("conn1") = MW
    /\ Touches("conn2") = MW

====
